---- MODULE Spec2Model ----
(***************************************************************************)
(* State-machine model of scrcpy-mcp: the scrcpy session engine            *)
(* (startSession / stopSession / socket handlers, src/unnamed/part_001)    *)
(* and the tool handlers that route between the scrcpy control channel and *)
(* the ADB fallback (src/src/tools/input.ts, src/src/tools/clipboard.ts).  *)
(***************************************************************************)
EXTENDS Integers, Sequences, FiniteSets, TLC

VARIABLES
    calls,      \* one record per startSession/stopSession invocation
    sockets,    \* every net.Socket created by connectToServer
    sessObj,    \* the ScrcpySession objects, keyed by the socket they were built on
    sessions,   \* the module-level Map<string, ScrcpySession>
    forward,    \* device that tcp:27183 is forwarded to on the host adb server
    fwdOwner,   \* the invocation whose `adb forward` installed the current forward
    ops,        \* one record per tool-handler invocation
    chan,       \* per control socket: write queue, bytes on the wire, clipboard waiters
    io          \* the call of a pure helper (encoder, parser): function, argument, result

vars == <<calls, sockets, sessObj, sessions, forward, fwdOwner, ops, chan, io>>
toolVars == <<ops, chan, io>>
engineVars == <<calls, sockets, sessObj, sessions, forward, fwdOwner>>

NULL == "null"

\* no helper has been called
NoIo == [fn |-> "none", arg |-> <<>>, out |-> <<>>]

\* ---------------------------------------------------------------- bounds
MaxCalls == 1        \* startSession/stopSession invocations that may overlap
MaxSockets == 2      \* sockets created in one behaviour
MaxChunks == 2       \* "data" events delivered to one receiveDeviceMeta
MaxBytes == 77       \* bytes delivered to one socket
MaxOps == 1          \* tool invocations in one behaviour of SpecTools
MaxTasks == 2        \* tool invocations in one behaviour of SpecQueue
MaxStarts == 2       \* startSession invocations that overlap in SpecOverlap

Serials == {"devA", "devB"}
\* inputs of the single-device specification: the serial argument (NULL when
\* omitted) and what `adb devices` lists when resolveSerial runs
SerialArgs == {"devA", NULL}
DeviceLists == {{}, {"devA"}, {"devA", "devB"}}
Calls == 1..MaxCalls
SocketIds == 1..MaxSockets
ChunkSizes == {1, 67, 76}   \* sizes of the TCP chunks a peer may deliver

\* ---------------------------------------------------------------- program constants
SCRCPY_SERVER_PORT == 27183
META_RESOLVE_LEN == 68          \* receiveDeviceMeta resolves at buffer.length >= 68
DEVICE_META_SIZE == 76

\* ---------------------------------------------------------------- helpers
NoSock == 0          \* "no socket" / "no session object" / "no invocation"

NoCall == [kind |-> "none", pc |-> "idle", serial |-> NULL, sock |-> NoSock,
           result |-> "none", session |-> NoSock, did |-> {}]
NoSocket == [st |-> "none", peer |-> "none", rx |-> 0, chunks |-> 0]
NoSession == [exists |-> FALSE, serial |-> NULL, controlSocket |-> NoSock]

\* sessions.get(serial): the session object's id, NoSock for undefined
getSession(serial) == sessions[serial]

\* (mutant) the `!` before session.controlSocket.destroyed is missing
hasActiveSession_negated(serial) ==
    /\ sessions[serial] # NoSock
    /\ sessObj[sessions[serial]].controlSocket # NoSock
    /\ sockets[sessObj[sessions[serial]].controlSocket].st = "destroyed"

\* (mutant) only the table entry is tested
hasActiveSession_entryOnly(serial) == sessions[serial] # NoSock

\* session !== undefined && session.controlSocket !== null && !session.controlSocket.destroyed
hasActiveSession(serial) ==
    /\ sessions[serial] # NoSock
    /\ sessObj[sessions[serial]].controlSocket # NoSock
    /\ sockets[sessObj[sessions[serial]].controlSocket].st # "destroyed"

\* resolveSerial(optionalSerial): the given serial unchanged, else the single
\* attached device; NoDeviceAttached / AmbiguousDevice otherwise.
resolveSerial(arg, devices) ==
    IF arg # NULL THEN arg
    ELSE IF devices = {} THEN "NoDeviceAttached"
    ELSE IF Cardinality(devices) > 1 THEN "AmbiguousDevice"
    ELSE CHOOSE d \in devices : TRUE

\* a rejected await inside startSession/stopSession: the async function throws
Fail(c, err) == [calls EXCEPT ![c].pc = "failed", ![c].result = err]

\* socket.destroy(), or the runtime destroying the socket on close/error; what
\* the peer was and how the bytes were chunked no longer matters afterwards
Destroyed(k) ==
    [sockets EXCEPT ![k].st = "destroyed", ![k].peer = "none", ![k].chunks = 0,
                    ![k].rx = IF sessObj[k].exists THEN @ ELSE 0]

\* a socket / session object still reachable from an invocation or the table
Referenced(k, cs, tbl) ==
    \/ \E c \in DOMAIN cs : cs[c].sock = k \/ cs[c].session = k
    \/ \E s \in Serials : tbl[s] = k

\* destroyed sockets (and the session objects built on them) that nothing
\* references any more are reclaimed by the runtime; their ids become free
Unreachable(k, cs, socks, tbl) ==
    socks[k].st = "destroyed" /\ ~Referenced(k, cs, tbl)

\* an open socket nothing references stays open (nobody reads it any more)
SweepSockets(cs, socks, tbl) ==
    [k \in SocketIds |->
        IF Unreachable(k, cs, socks, tbl) THEN NoSocket
        ELSE IF socks[k].st = "open" /\ ~Referenced(k, cs, tbl)
        THEN [NoSocket EXCEPT !.st = "open"]
        ELSE socks[k]]

SweepSessions(cs, socks, objs, tbl) ==
    [k \in SocketIds |-> IF Unreachable(k, cs, socks, tbl) THEN NoSession ELSE objs[k]]

\* the next unused socket id (net.createConnection makes a fresh object)
FreshSock == CHOOSE k \in SocketIds :
                 /\ sockets[k].st = "none"
                 /\ \A j \in SocketIds : j < k => sockets[j].st # "none"

\* a new invocation may begin in slot c (the lowest free one)
CanInvoke(c) ==
    /\ calls[c].kind = "none"
    /\ \A d \in DOMAIN calls : d < c => calls[d].kind # "none"

\* ---------------------------------------------------------------- tool handlers: data
Routable == {"tap", "swipe", "long_press", "drag_drop", "input_text", "key_event",
             "scroll", "clipboard_get", "clipboard_set"}
AdbOnly == {"file_push", "file_pull", "file_list", "shell_exec"}
ToolKinds == Routable \cup AdbOnly
\* the gestures whose *ViaScrcpy helper begins with `if (!session) throw`
SessionChecked == {"tap", "swipe", "long_press", "drag_drop", "scroll"}

ACTION_DOWN == 0
ACTION_UP == 1
ACTION_MOVE == 2
TEXT_MAX_LENGTH == 300
MAX_CLIPBOARD_BYTES == 1048576
SWIPE_STEP_MS == 16             \* Math.floor(duration / 16)
SDK_DRAGANDDROP == 26           \* `input draganddrop` needs API 26
SDK_CLIPBOARD_SET == 29         \* `cmd clipboard set` needs API 29
SDK_CLIPBOARD_GET == 31         \* `cmd clipboard get` needs API 31
NaN == -1                       \* parseInt's "not a number"

\* a keycode argument: a number, or a string (name or decimal digits)
NoKey == [num |-> FALSE, n |-> 0, s |-> "none"]
Keycodes == {[num |-> TRUE, n |-> 4, s |-> "none"],
             [num |-> FALSE, n |-> 0, s |-> "HOME"],
             [num |-> FALSE, n |-> 0, s |-> "home"],
             [num |-> FALSE, n |-> 0, s |-> "66"],
             [num |-> FALSE, n |-> 0, s |-> "66abc"],
             [num |-> FALSE, n |-> 0, s |-> "bogus"]}
Durations == {10, 48}           \* swipe / drag_drop durations in ms
TextLengths == {3, 301}         \* UTF-8 byte length of the text argument
P1 == <<10, 20>>                \* the gesture's (first) point
P2 == <<19, 50>>                \* the end point of swipe / drag_drop

NoInput == [dur |-> 0, text |-> 0, key |-> NoKey, paste |-> FALSE, path |-> "none"]

\* the argument values each tool is invoked with
ToolInputs(kind) ==
    CASE kind \in {"swipe", "drag_drop"} -> {[NoInput EXCEPT !.dur = d] : d \in Durations}
      [] kind = "long_press" -> {[NoInput EXCEPT !.dur = 500]}
      [] kind = "input_text" -> {[NoInput EXCEPT !.text = n] : n \in TextLengths}
      [] kind = "key_event" -> {[NoInput EXCEPT !.key = c] : c \in Keycodes}
      [] kind = "clipboard_set" -> {[NoInput EXCEPT !.paste = b] : b \in BOOLEAN}
      [] kind = "file_push" ->
            {[NoInput EXCEPT !.path = p] : p \in {"relative", "missing", "absolute"}}
      [] kind = "file_pull" -> {[NoInput EXCEPT !.path = p] : p \in {"relative", "absolute"}}
      [] OTHER -> {NoInput}

NoOp == [kind |-> "none", pc |-> "idle", serial |-> NULL, inp |-> NoInput, code |-> 0,
         i |-> 0, sent |-> <<>>, logged |-> FALSE, cmd |-> "none", adb |-> <<>>,
         result |-> "none", source |-> "none", content |-> "none", reply |-> 0,
         ticket |-> 0, pos |-> 0, error |-> "none", rlen |-> 0]
NoChan == [wq |-> <<>>, wire |-> <<>>, enq |-> 0, waiters |-> <<>>, wenq |-> 0,
           replies |-> 0, seq |-> 0, abort |-> "none"]

\* String.prototype.toUpperCase on the keycode strings of the model
ToUpperCase(s) == IF s = "home" THEN "HOME" ELSE s

\* parseInt(s, 10) on the strings of the model: the value of the longest
\* prefix of digits, NaN when the string does not start with a digit
ParseInt(s) ==
    CASE s = "66" -> 66
      [] s = "66abc" -> 66
      [] s = "25" -> 25
      [] s = "30" -> 30
      [] s = "33" -> 33
      [] OTHER -> NaN

\* three rows of KEYCODE_MAP
KEYCODE_MAP == [HOME |-> 3, BACK |-> 4, ENTER |-> 66]

\* resolveKeycode(keycode); NaN stands for `throw new Error("Unknown keycode")`
resolveKeycode(keycode) ==
    IF keycode.num THEN keycode.n
    ELSE IF ToUpperCase(keycode.s) \in DOMAIN KEYCODE_MAP
    THEN KEYCODE_MAP[ToUpperCase(keycode.s)]
    ELSE ParseInt(keycode.s)

\* ---------------------------------------------------------------- control messages
\* session.screenSize of a serial's session: written once, when startSession
\* builds the session object, and only read afterwards
screenSize(serial) ==
    IF serial = "devA" THEN [width |-> 1080, height |-> 1920]
    ELSE [width |-> 720, height |-> 1280]

serializeInjectTouchEvent(action, p, size) ==
    [type |-> "INJECT_TOUCH_EVENT", action |-> action, x |-> p[1], y |-> p[2], n |-> 0,
     w |-> size.width, h |-> size.height]
serializeInjectKeycode(action, code) ==
    [type |-> "INJECT_KEYCODE", action |-> action, x |-> 0, y |-> 0, n |-> code,
     w |-> 0, h |-> 0]
serializeInjectText(len) ==
    [type |-> "INJECT_TEXT", action |-> 0, x |-> 0, y |-> 0, n |-> len, w |-> 0, h |-> 0]
serializeInjectScrollEvent(p, size) ==
    [type |-> "INJECT_SCROLL_EVENT", action |-> 0, x |-> p[1], y |-> p[2], n |-> 0,
     w |-> size.width, h |-> size.height]
serializeGetClipboard ==
    [type |-> "GET_CLIPBOARD", action |-> 0, x |-> 0, y |-> 0, n |-> 0, w |-> 0, h |-> 0]
serializeSetClipboard(seq, paste) ==
    [type |-> "SET_CLIPBOARD", action |-> IF paste THEN 1 ELSE 0, x |-> 0, y |-> 0, n |-> seq,
     w |-> 0, h |-> 0]

Max(a, b) == IF a >= b THEN a ELSE b
\* Math.round(n / d) for d > 0 (halves round up)
Round(n, d) == (2 * n + d) \div (2 * d)

\* (mutant) one step per 16 ms and one more
swipeSteps_plusOne(duration) == Max(2, duration \div SWIPE_STEP_MS) + 1

\* steps = Math.max(2, Math.floor(duration / 16))
swipeSteps(duration) == Max(2, duration \div SWIPE_STEP_MS)

\* swipeViaScrcpy: DOWN at the start, MOVE for i = 1 .. steps-1 at the rounded
\* interpolation, UP at the end
swipeViaScrcpy(p, q, duration, size) ==
    LET steps == swipeSteps(duration) IN
    <<serializeInjectTouchEvent(ACTION_DOWN, p, size)>>
    \o [i \in 1..(steps - 1) |->
          serializeInjectTouchEvent(ACTION_MOVE,
              <<Round(p[1] * steps + (q[1] - p[1]) * i, steps),
                Round(p[2] * steps + (q[2] - p[2]) * i, steps)>>, size)]
    \o <<serializeInjectTouchEvent(ACTION_UP, q, size)>>

\* (mutant) the UP is sent before the DOWN
tapViaScrcpy_reversed(p, size) ==
    <<serializeInjectTouchEvent(ACTION_UP, p, size),
      serializeInjectTouchEvent(ACTION_DOWN, p, size)>>

\* tapViaScrcpy: DOWN, sleep(10), UP, both at (x, y)
tapViaScrcpy(p, size) ==
    <<serializeInjectTouchEvent(ACTION_DOWN, p, size),
      serializeInjectTouchEvent(ACTION_UP, p, size)>>

\* the control messages the *ViaScrcpy helper of an operation sends, in order
\* (a sleep separates consecutive sends)
ScrcpyScript(op) ==
    CASE op.kind = "tap" -> tapViaScrcpy(P1, screenSize(op.serial))
      [] op.kind = "long_press" ->
            <<serializeInjectTouchEvent(ACTION_DOWN, P1, screenSize(op.serial)),
              serializeInjectTouchEvent(ACTION_UP, P1, screenSize(op.serial))>>
      [] op.kind \in {"swipe", "drag_drop"} ->
            swipeViaScrcpy(P1, P2, op.inp.dur, screenSize(op.serial))
      [] op.kind = "scroll" -> <<serializeInjectScrollEvent(P1, screenSize(op.serial))>>
      [] op.kind = "key_event" ->
            <<serializeInjectKeycode(ACTION_DOWN, op.code),
              serializeInjectKeycode(ACTION_UP, op.code)>>
      [] op.kind = "input_text" -> <<serializeInjectText(op.inp.text)>>
      [] op.kind = "clipboard_get" -> <<serializeGetClipboard>>
      [] op.kind = "clipboard_set" -> <<serializeSetClipboard(0, op.inp.paste)>>

\* ---------------------------------------------------------------- Init
Init ==
    /\ calls = [c \in Calls |-> NoCall]
    /\ sockets = [k \in SocketIds |-> NoSocket]
    /\ sessObj = [k \in SocketIds |-> NoSession]
    /\ sessions = [s \in Serials |-> NoSock]
    /\ forward = NULL
    /\ fwdOwner = NoSock
    /\ ops = <<>>        \* no tool is invoked in the engine specification
    /\ chan = <<>>
    /\ io = NoIo

\* ---------------------------------------------------------------- startSession
\* startSession(serial) is called: findScrcpyServer(), then await resolveSerial.
StartInvoke(c, arg, found) ==
    /\ CanInvoke(c)
    /\ calls' = [calls EXCEPT ![c] =
                   IF found
                   THEN [NoCall EXCEPT !.kind = "start", !.pc = "resolve", !.serial = arg]
                   ELSE [NoCall EXCEPT !.kind = "start", !.pc = "failed", !.serial = arg,
                                       !.result = "ServerNotFound"]]
    /\ UNCHANGED <<sockets, sessObj, sessions, forward, fwdOwner>>
    /\ UNCHANGED toolVars

\* resolveSerial settles; the idempotent check; pushScrcpyServer is issued.
StartResolved(c, devices) ==
    /\ calls[c].kind = "start" /\ calls[c].pc = "resolve"
    /\ LET s == resolveSerial(calls[c].serial, devices) IN
         calls' = IF s \notin Serials THEN Fail(c, s)
                  ELSE IF hasActiveSession(s)
                  THEN [calls EXCEPT ![c].pc = "done", ![c].serial = s,
                                     ![c].result = "ok", ![c].session = sessions[s]]
                  ELSE [calls EXCEPT ![c].pc = "push", ![c].serial = s,
                                     ![c].did = @ \cup {"push"}]
    /\ UNCHANGED <<sockets, sessObj, sessions, forward, fwdOwner>>
    /\ UNCHANGED toolVars

\* `adb push` settles; setupPortForwarding is issued.
StartPushed(c, ok) ==
    /\ calls[c].kind = "start" /\ calls[c].pc = "push"
    /\ calls' = IF ok THEN [calls EXCEPT ![c].pc = "forward", ![c].did = @ \cup {"forward"}]
                ELSE Fail(c, "AdbInvocationFailed")
    /\ UNCHANGED <<sockets, sessObj, sessions, forward, fwdOwner>>
    /\ UNCHANGED toolVars

\* `adb forward tcp:27183 localabstract:scrcpy` settles; startScrcpyServer spawns
\* the detached server; the 500 ms sleep starts.
StartForwarded(c, ok) ==
    /\ calls[c].kind = "start" /\ calls[c].pc = "forward"
    /\ IF ok
       THEN /\ forward' = calls[c].serial
            /\ fwdOwner' = c
            /\ calls' = [calls EXCEPT ![c].pc = "sleep",
                                      ![c].did = @ \cup {"forwarded", "spawn"}]
       ELSE /\ calls' = Fail(c, "AdbInvocationFailed")
            /\ UNCHANGED <<forward, fwdOwner>>
    /\ UNCHANGED <<sockets, sessObj, sessions>>
    /\ UNCHANGED toolVars

\* the sleep ends; connectToServer creates the socket and starts connecting.
StartConnect(c) ==
    /\ calls[c].kind = "start" /\ calls[c].pc = "sleep"
    /\ \E k \in SocketIds : sockets[k].st = "none"
    /\ sockets' = [sockets EXCEPT ![FreshSock].st = "connecting"]
    /\ calls' = [calls EXCEPT ![c].pc = "connect", ![c].sock = FreshSock,
                              ![c].did = @ \cup {"connect"}]
    /\ UNCHANGED <<sessObj, sessions, forward, fwdOwner>>
    /\ UNCHANGED toolVars

\* "connect" event: connectToServer resolves with the socket as soon as TCP is
\* up; receiveDeviceMeta attaches its data/error listeners and its 5 s timer.
\* The adb forward listener accepts TCP whether or not a server is behind it.
ConnectOk(c, peer) ==
    /\ calls[c].kind = "start" /\ calls[c].pc = "connect"
    /\ forward # NULL
    /\ sockets' = [sockets EXCEPT ![calls[c].sock].st = "open",
                                  ![calls[c].sock].peer = peer]
    /\ calls' = [calls EXCEPT ![c].pc = "meta"]
    /\ UNCHANGED <<sessObj, sessions, forward, fwdOwner>>
    /\ UNCHANGED toolVars

\* "error" event while connecting: the runtime destroys the socket; reject(err).
ConnectError(c) ==
    /\ calls[c].kind = "start" /\ calls[c].pc = "connect"
    /\ sockets' = Destroyed(calls[c].sock)
    /\ calls' = Fail(c, "ConnectError")
    /\ UNCHANGED <<sessObj, sessions, forward, fwdOwner>>
    /\ UNCHANGED toolVars

\* the 10 s connect timer: socket.destroy(); reject("Connection timeout").
ConnectTimeout(c) ==
    /\ calls[c].kind = "start" /\ calls[c].pc = "connect"
    /\ sockets' = Destroyed(calls[c].sock)
    /\ calls' = Fail(c, "ConnectionTimeout")
    /\ UNCHANGED <<sessObj, sessions, forward, fwdOwner>>
    /\ UNCHANGED toolVars

\* the session object startSession builds once receiveDeviceMeta resolved
NewSession(s, k) ==
    [exists |-> TRUE, serial |-> s, controlSocket |-> k]

\* receiveDeviceMeta's resolve condition
MetaComplete(len) == len >= META_RESOLVE_LEN

\* (mutant) the session is put into the table on the first data event
TableAfterData_early(tbl, s, k, len) == [tbl EXCEPT ![s] = k]

\* sessions.set(s, session) runs only after receiveDeviceMeta resolved
TableAfterData(tbl, s, k, len) ==
    IF MetaComplete(len) THEN [tbl EXCEPT ![s] = k] ELSE tbl

\* "data" event in receiveDeviceMeta: the chunk is appended; when the buffer is
\* long enough the promise resolves and startSession registers the session and
\* wires the close/error handlers, all in the same turn.
MetaData(c, n) ==
    /\ calls[c].kind = "start" /\ calls[c].pc = "meta"
    /\ LET k == calls[c].sock
           len == sockets[k].rx + n
       IN /\ sockets[k].st = "open" /\ sockets[k].peer = "server"
          /\ sockets[k].chunks < MaxChunks /\ len <= MaxBytes
          /\ sockets' = [sockets EXCEPT ![k].rx = len,
                                        ![k].chunks = IF MetaComplete(len) THEN 0 ELSE @ + 1]
          /\ sessions' = TableAfterData(sessions, calls[c].serial, k, len)
          /\ IF MetaComplete(len)
             THEN /\ sessObj' = [sessObj EXCEPT ![k] = NewSession(calls[c].serial, k)]
                  /\ calls' = [calls EXCEPT ![c].pc = "done", ![c].result = "ok",
                                            ![c].session = k,
                                            ![c].did = @ \cup {"register"}]
             ELSE UNCHANGED <<sessObj, calls>>
    /\ UNCHANGED <<forward, fwdOwner>>
    /\ UNCHANGED toolVars

\* (mutant) the metadata timer resolves the promise instead of rejecting it
AfterMetaTimeout_resolves(c) == [calls EXCEPT ![c].pc = "done", ![c].result = "ok"]

\* the timer callback of receiveDeviceMeta rejects; startSession has no catch
AfterMetaTimeout(c) == Fail(c, "MetadataTimeout")

\* the 5 s metadata timer: reject("Timeout waiting for device metadata").
MetaTimeout(c) ==
    /\ calls[c].kind = "start" /\ calls[c].pc = "meta"
    /\ calls' = AfterMetaTimeout(c)
    /\ UNCHANGED <<sockets, sessObj, sessions, forward, fwdOwner>>
    /\ UNCHANGED toolVars

\* socket "error" during receiveDeviceMeta: reject(err); the runtime destroys it.
MetaSocketError(c) ==
    /\ calls[c].kind = "start" /\ calls[c].pc = "meta"
    /\ sockets[calls[c].sock].st = "open"
    /\ sockets' = Destroyed(calls[c].sock)
    /\ calls' = Fail(c, "SocketError")
    /\ UNCHANGED <<sessObj, sessions, forward, fwdOwner>>
    /\ UNCHANGED toolVars

\* ---------------------------------------------------------------- socket handlers
\* what the handlers wired at the end of startSession do to the session object
OnControlSocketGone(k) == [sessObj EXCEPT ![k].controlSocket = NoSock]

\* the peer closes the connection: "close" is emitted on the socket
SocketClose(k) ==
    /\ sockets[k].st = "open"
    /\ sockets' = SweepSockets(calls, Destroyed(k), sessions)
    /\ sessObj' = SweepSessions(calls, Destroyed(k),
                                IF sessObj[k].exists THEN OnControlSocketGone(k) ELSE sessObj,
                                sessions)
    /\ UNCHANGED <<calls, sessions, forward, fwdOwner>>
    /\ UNCHANGED toolVars

\* a socket error on a registered session's control socket: "error" is emitted
SocketError(k) ==
    /\ sockets[k].st = "open"
    /\ sessObj[k].exists
    /\ sockets' = SweepSockets(calls, Destroyed(k), sessions)
    /\ sessObj' = SweepSessions(calls, Destroyed(k), OnControlSocketGone(k), sessions)
    /\ UNCHANGED <<calls, sessions, forward, fwdOwner>>
    /\ UNCHANGED toolVars

\* ---------------------------------------------------------------- stopSession
StopInvoke(c, arg) ==
    /\ CanInvoke(c)
    /\ calls' = [calls EXCEPT ![c] =
                   [NoCall EXCEPT !.kind = "stop", !.pc = "resolve", !.serial = arg]]
    /\ UNCHANGED <<sockets, sessObj, sessions, forward, fwdOwner>>
    /\ UNCHANGED toolVars

\* resolveSerial settles; the session is looked up, its socket destroyed and
\* cleared, and `pkill -f scrcpy-server` is issued.
StopResolved(c, devices) ==
    /\ calls[c].kind = "stop" /\ calls[c].pc = "resolve"
    /\ LET s == resolveSerial(calls[c].serial, devices) IN
         IF s \notin Serials
         THEN /\ calls' = Fail(c, s)
              /\ UNCHANGED <<sockets, sessObj>>
         ELSE IF sessions[s] = NoSock
         THEN /\ calls' = [calls EXCEPT ![c].pc = "done", ![c].serial = s, ![c].result = "ok"]
              /\ UNCHANGED <<sockets, sessObj>>
         ELSE LET id == sessions[s]
                  k == sessObj[id].controlSocket
              IN /\ calls' = [calls EXCEPT ![c].pc = "pkill", ![c].serial = s,
                                           ![c].session = id]
                 /\ sockets' = IF k # NoSock
                               THEN Destroyed(k)
                               ELSE sockets
                 /\ sessObj' = [sessObj EXCEPT ![id].controlSocket = NoSock]
    /\ UNCHANGED <<sessions, forward, fwdOwner>>
    /\ UNCHANGED toolVars

\* (mutant) the try/catch around pkill is missing: its failure rejects stopSession
AfterPkill_throws(c, ok) ==
    IF ok THEN [calls EXCEPT ![c].pc = "unforward"] ELSE Fail(c, "AdbInvocationFailed")

\* try { await execAdbShell(s, "pkill -f scrcpy-server") } catch { }: stopSession
\* goes on to removePortForwarding whether or not pkill succeeded
AfterPkill(c, ok) == [calls EXCEPT ![c].pc = "unforward"]

\* `pkill -f scrcpy-server` settles (a failure is ignored); removePortForwarding
\* is issued.
StopPkilled(c, ok) ==
    /\ calls[c].kind = "stop" /\ calls[c].pc = "pkill"
    /\ calls' = AfterPkill(c, ok)
    /\ UNCHANGED <<sockets, sessObj, sessions, forward, fwdOwner>>
    /\ UNCHANGED toolVars

\* `adb forward --remove tcp:27183` settles (a failure is ignored); sessions.delete(s).
StopUnforwarded(c, ok) ==
    /\ calls[c].kind = "stop" /\ calls[c].pc = "unforward"
    /\ IF ok /\ forward # NULL
       THEN forward' = NULL /\ fwdOwner' = NoSock
       ELSE UNCHANGED <<forward, fwdOwner>>
    /\ sessions' = [sessions EXCEPT ![calls[c].serial] = NoSock]
    /\ calls' = [calls EXCEPT ![c].pc = "done", ![c].result = "ok"]
    /\ UNCHANGED <<sockets, sessObj>>
    /\ UNCHANGED toolVars

\* the caller has received the result (or the exception) of invocation c
Return(c) ==
    /\ calls[c].pc \in {"done", "failed"}
    /\ calls' = [calls EXCEPT ![c] = NoCall]
    /\ sockets' = SweepSockets(calls', sockets, sessions)
    /\ sessObj' = SweepSessions(calls', sockets, sessObj, sessions)
    /\ fwdOwner' = IF fwdOwner = c THEN NoSock ELSE fwdOwner
    /\ UNCHANGED <<sessions, forward>>
    /\ UNCHANGED toolVars

\* ---------------------------------------------------------------- specification
Next ==
    \/ \E c \in Calls, arg \in SerialArgs, found \in BOOLEAN : StartInvoke(c, arg, found)
    \/ \E c \in Calls, devices \in DeviceLists : StartResolved(c, devices)
    \/ \E c \in Calls, ok \in BOOLEAN : StartPushed(c, ok)
    \/ \E c \in Calls, ok \in BOOLEAN : StartForwarded(c, ok)
    \/ \E c \in Calls : StartConnect(c)
    \/ \E c \in Calls, peer \in {"server", "tunnel"} : ConnectOk(c, peer)
    \/ \E c \in Calls : ConnectError(c)
    \/ \E c \in Calls : ConnectTimeout(c)
    \/ \E c \in Calls, n \in ChunkSizes : MetaData(c, n)
    \/ \E c \in Calls : MetaTimeout(c)
    \/ \E c \in Calls : MetaSocketError(c)
    \/ \E k \in SocketIds : SocketClose(k)
    \/ \E k \in SocketIds : SocketError(k)
    \/ \E c \in Calls, arg \in SerialArgs : StopInvoke(c, arg)
    \/ \E c \in Calls, devices \in DeviceLists : StopResolved(c, devices)
    \/ \E c \in Calls, ok \in BOOLEAN : StopPkilled(c, ok)
    \/ \E c \in Calls, ok \in BOOLEAN : StopUnforwarded(c, ok)
    \/ \E c \in Calls : Return(c)

Spec == Init /\ [][Next]_vars

\* ---------------------------------------------------------------- tool handlers: steps
\* a tool invocation may begin in slot o (the lowest free one)
CanCall(o) ==
    /\ ops[o].kind = "none"
    /\ \A p \in DOMAIN ops : p < o => ops[p].kind # "none"

\* the handler returns a result object
Finish(op, result, source) ==
    [op EXCEPT !.pc = "done", !.result = result, !.source = source, !.cmd = "none"]

\* (mutant) the outermost catch rethrows instead of returning a result
HandlerCatch_rethrow(op) == Finish(op, "threw", "none")

\* the outermost catch of every handler: return {error: true, message: err.message}
HandlerCatch(op) == Finish(op, "error", "none")

\* (mutant) the lookup drops the entry of a session whose socket is gone
TableAfterLookup_evicts(tbl, s) ==
    IF s \in Serials /\ tbl[s] # NoSock /\ ~hasActiveSession(s)
    THEN [tbl EXCEPT ![s] = NoSock] ELSE tbl

\* getSession / hasActiveSession read the table with sessions.get(serial):
\* the table after a lookup is the table before it
TableAfterLookup(tbl, s) == tbl

\* the errors resolveSerial throws
ResolveErrors == {"NoDeviceAttached", "AmbiguousDevice"}

\* the first ADB command of an operation's ADB path
FirstCommand(kind) ==
    CASE kind = "tap" -> "input tap"
      [] kind \in {"swipe", "long_press", "scroll"} -> "input swipe"
      [] kind \in {"drag_drop", "clipboard_get", "clipboard_set"} -> "getprop"
      [] kind = "input_text" -> "input text"
      [] kind = "key_event" -> "input keyevent"
      [] kind = "file_push" -> "push"
      [] kind = "file_pull" -> "pull"
      [] kind = "file_list" -> "ls -la"
      [] kind = "shell_exec" -> "shell"

\* the handler reaches its ADB path and awaits the first command
StartFallback(op) == [op EXCEPT !.pc = "adb", !.cmd = FirstCommand(op.kind)]

\* (mutant) the inner catch surfaces the scrcpy error instead of falling back
ScrcpyCatch_surface(op) == Finish([op EXCEPT !.logged = TRUE], "error", "none")

\* the inner catch around the scrcpy path: console.error(...), then fall
\* through to the ADB path
ScrcpyCatch(op) == StartFallback([op EXCEPT !.logged = TRUE])

\* (mutant) a failed serial resolution is treated like a failed scrcpy path
ResolveFailed_fallback(op, err) == StartFallback([op EXCEPT !.error = err])

\* `await resolveSerial(serial)` throws inside the handler's outer try, before
\* the session check: the outer catch returns the error result
ResolveFailed(op, err) == HandlerCatch([op EXCEPT !.error = err])

\* (mutant) the ADB result does not mention the paste
clipboardSetMessage_silent(paste, source) ==
    IF source = "scrcpy" /\ paste THEN "Clipboard set and paste triggered" ELSE "Clipboard set"

\* the message of clipboard_set's success result
clipboardSetMessage(paste, source) ==
    IF source = "scrcpy"
    THEN IF paste THEN "Clipboard set and paste triggered" ELSE "Clipboard set"
    ELSE IF paste THEN "Clipboard set. Note: Paste action not performed" ELSE "Clipboard set"

\* what stdout of an ADB command may be (classes of output)
OutputsOf(cmd) ==
    CASE cmd = "getprop" -> {"nan", "25", "30", "33"}
      [] cmd = "cmd clipboard get" -> {"", "text", "cmd: not found", "Error: x"}
      [] cmd = "service call clipboard 2" -> {"", "result", "quoted", "hex", "junk"}
      [] OTHER -> {"out"}

\* (mutant) whatever `cmd clipboard get` printed is returned
CmdClipboardUsable_any(out) == TRUE

\* `result && !result.includes("not found") && !result.includes("Error")`
CmdClipboardUsable(out) == out \notin {"", "cmd: not found", "Error: x"}

\* the three parsing strategies of getClipboardViaAdb on the output classes:
\* the extracted text, NULL when none matches (or the output is empty)
ParseServiceCall(out) ==
    CASE out = "result" -> "text1"
      [] out = "quoted" -> "text2"
      [] out = "hex" -> "text3"
      [] OTHER -> NULL

\* the commands whose stdout getClipboardViaAdb inspects and returns; the
\* log of an operation keeps the stdout of these, and of the getprop that
\* getClipboardViaAdb reads the SDK level from
ReadsClipboard(cmd) == cmd \in {"cmd clipboard get", "service call clipboard 2"}

\* the awaited ADB command settled (ok = exit status 0, out = its stdout): the
\* handler's next await or its returned result
AdbContinue(op, ok, out) ==
    LET op2 == [op EXCEPT !.adb = Append(@, [cmd |-> op.cmd, ok |-> ok,
                                              out |-> IF ok /\ (\/ ReadsClipboard(op.cmd)
                                                                \/ /\ op.kind = "clipboard_get"
                                                                   /\ op.cmd = "getprop")
                                                      THEN out ELSE ""])]
        sdk == ParseInt(out)
    IN
    CASE op.kind = "drag_drop" /\ op.cmd = "getprop" ->
            IF ~ok THEN HandlerCatch(op2)
            ELSE IF sdk # NaN /\ sdk >= SDK_DRAGANDDROP
            THEN [op2 EXCEPT !.cmd = "input draganddrop"]
            ELSE [op2 EXCEPT !.cmd = "input swipe"]
      [] op.kind = "clipboard_get" /\ op.cmd = "getprop" ->
            IF ~ok THEN Finish(op2, "error", "none")
            ELSE IF sdk # NaN /\ sdk >= SDK_CLIPBOARD_GET
            THEN [op2 EXCEPT !.cmd = "cmd clipboard get"]
            ELSE [op2 EXCEPT !.cmd = "service call clipboard 2"]
      [] op.kind = "clipboard_get" /\ op.cmd = "cmd clipboard get" ->
            IF ~ok THEN Finish(op2, "error", "none")
            ELSE IF CmdClipboardUsable(out)
            THEN Finish([op2 EXCEPT !.content = out], "ok", "adb")
            ELSE [op2 EXCEPT !.cmd = "service call clipboard 2"]
      [] op.kind = "clipboard_get" /\ op.cmd = "service call clipboard 2" ->
            IF ok /\ ParseServiceCall(out) # NULL
            THEN Finish([op2 EXCEPT !.content = ParseServiceCall(out)], "ok", "adb")
            ELSE Finish(op2, "error", "none")
      [] op.kind = "clipboard_set" /\ op.cmd = "getprop" ->
            IF ~ok THEN Finish(op2, "error", "none")
            ELSE IF sdk # NaN /\ sdk >= SDK_CLIPBOARD_SET
            THEN [op2 EXCEPT !.cmd = "cmd clipboard set"]
            ELSE [op2 EXCEPT !.cmd = "am broadcast"]
      [] op.kind = "clipboard_set" /\ op.cmd # "getprop" ->
            IF ok
            THEN Finish([op2 EXCEPT !.content = clipboardSetMessage(op.inp.paste, "adb")],
                        "ok", "adb")
            ELSE Finish(op2, "error", "none")
      [] OTHER ->
            IF ok THEN Finish(op2, "ok", "adb") ELSE HandlerCatch(op2)

\* the control socket of a serial's session
ControlSocketOf(serial) == sessObj[sessions[serial]].controlSocket

\* sendControlMessage(serial, msg) throws: no session with a usable control
\* socket, or the socket write throws (wr = FALSE)
SendThrows(serial, wr) == ~hasActiveSession(serial) \/ ~wr

\* serializeInjectText fails with TextTooLong on more than 300 bytes
TextTooLong(len) == len > TEXT_MAX_LENGTH

\* what throws inside the *ViaScrcpy helper before the send: the session
\* lookup of the touch helpers, the text encoder
PreThrows(op) ==
    \/ op.kind \in SessionChecked /\ getSession(op.serial) = NoSock
    \/ op.kind = "input_text" /\ TextTooLong(op.inp.text)

\* (mutant) the counter starts at 1 and is never advanced
NextSeq_stuck(seq) == IF seq = 0 THEN 1 ELSE seq

\* the session's SET_CLIPBOARD sequence counter: the value after seq
NextSeq(seq) == seq + 1

\* sendControlMessage appends the whole message to the session's write queue
Enqueue(ch, o, m) ==
    [ch EXCEPT !.wq = Append(@, [t |-> ch.enq + 1, o |-> o, m |-> m]), !.enq = @ + 1]

\* the handler after message m was accepted by sendControlMessage
AfterSend(op, m, ch) ==
    LET op2 == [op EXCEPT !.sent = Append(@, m)] IN
    IF op.kind = "clipboard_get"
    THEN [op2 EXCEPT !.pc = "clip", !.ticket = ch.wenq, !.pos = Len(ch.waiters)]
    ELSE IF op.kind = "clipboard_set"
    THEN Finish([op2 EXCEPT !.content = clipboardSetMessage(op.inp.paste, "scrcpy")],
                "ok", "scrcpy")
    ELSE IF op.i = Len(ScrcpyScript(op)) THEN Finish(op2, "ok", "scrcpy")
    ELSE [op2 EXCEPT !.pc = "sleep", !.i = @ + 1]

\* one synchronous stretch of the scrcpy path of op: build message op.i, send
\* it; on a throw the inner catch takes over
ScrcpySend(o, op, wr) ==
    IF PreThrows(op) \/ SendThrows(op.serial, wr)
    THEN /\ ops' = [ops EXCEPT ![o] = ScrcpyCatch(op)]
         /\ UNCHANGED chan
    ELSE LET k == ControlSocketOf(op.serial)
             raw == ScrcpyScript(op)[op.i]
             m == IF raw.type = "SET_CLIPBOARD"
                  THEN serializeSetClipboard(NextSeq(chan[k].seq), op.inp.paste)
                  ELSE raw
             ch1 == Enqueue(chan[k], o, m)
             ch2 == IF raw.type = "SET_CLIPBOARD" THEN [ch1 EXCEPT !.seq = NextSeq(@)]
                    ELSE IF raw.type = "GET_CLIPBOARD"
                    THEN [ch1 EXCEPT !.waiters = Append(@, o), !.wenq = @ + 1]
                    ELSE ch1
         IN /\ chan' = [chan EXCEPT ![k] = ch2]
            /\ ops' = [ops EXCEPT ![o] = AfterSend(op, m, ch2)]

\* a tool is called: the synchronous part of its handler up to the first await
OpInvoke(o, kind, arg, inp) ==
    /\ CanCall(o)
    /\ LET op == [NoOp EXCEPT !.kind = kind, !.serial = arg, !.inp = inp] IN
       ops' = [ops EXCEPT ![o] =
                 IF kind = "key_event" /\ resolveKeycode(inp.key) = NaN
                 THEN Finish(op, "error", "none")
                 ELSE IF kind \in {"file_push", "file_pull"} /\ inp.path = "relative"
                 THEN Finish(op, "error", "none")
                 ELSE IF kind = "file_push" /\ inp.path = "missing"
                 THEN Finish(op, "error", "none")
                 ELSE [op EXCEPT !.pc = "resolve",
                                 !.code = IF kind = "key_event"
                                          THEN resolveKeycode(inp.key) ELSE 0]]
    /\ UNCHANGED <<chan, engineVars, io>>

\* (mutant) the scrcpy path is tried without the session check
TakesScrcpyPath_unchecked(op, s) == op.kind \in Routable

\* `if (hasActiveSession(s))` in the handlers that have a scrcpy path
TakesScrcpyPath(op, s) == op.kind \in Routable /\ hasActiveSession(s)

\* resolveSerial settles: on failure the outer catch; else the scrcpy path when
\* hasActiveSession(s), the ADB path otherwise
OpResolved(o, devices, wr) ==
    /\ ops[o].pc = "resolve"
    /\ LET s == resolveSerial(ops[o].serial, devices)
           op == [ops[o] EXCEPT !.serial = s, !.i = 1]
       IN /\ IF s \notin Serials
             THEN ops' = [ops EXCEPT ![o] = ResolveFailed(ops[o], s)] /\ UNCHANGED chan
             ELSE IF TakesScrcpyPath(op, s)
             THEN ScrcpySend(o, op, wr)
             ELSE ops' = [ops EXCEPT ![o] = StartFallback(op)] /\ UNCHANGED chan
          /\ sessions' = TableAfterLookup(sessions, s)
    /\ UNCHANGED <<calls, sockets, sessObj, forward, fwdOwner, io>>

\* the sleep between two sends of a gesture ends: the next message is sent
OpWake(o, wr) ==
    /\ ops[o].pc = "sleep"
    /\ ScrcpySend(o, ops[o], wr)
    /\ UNCHANGED <<engineVars, io>>

\* the awaited ADB command of the ADB path settles
AdbSettled(o, ok, out) ==
    /\ ops[o].pc = "adb"
    /\ out \in OutputsOf(ops[o].cmd)
    /\ ops' = [ops EXCEPT ![o] = AdbContinue(ops[o], ok, out)]
    /\ UNCHANGED <<chan, engineVars, io>>

\* (mutant) the newest waiter is resolved first
ResolveWhich_newest(waiters) == waiters[Len(waiters)]

\* the waiter a clipboard reply frame resolves: the oldest one still pending
ResolveWhich(waiters) == Head(waiters)

Without(seq, x) == SelectSeq(seq, LAMBDA y : y # x)

\* the length field of a clipboard reply frame: the largest accepted, one more
ReplyLengths == {MAX_CLIPBOARD_BYTES, MAX_CLIPBOARD_BYTES + 1}

\* (mutant) the length field is not validated
Oversize_unchecked(len) == FALSE

\* the length field of a reply frame is validated against MAX_CLIPBOARD_BYTES
Oversize(len) == len > MAX_CLIPBOARD_BYTES

\* a clipboard frame with length field len arrives on control socket k for a
\* pending request. An oversize frame aborts the session: the socket is
\* destroyed and no waiter is resolved. Otherwise the reader resolves a waiter
\* and its handler returns {content, source: "scrcpy"}
ClipReply(k, len) ==
    /\ sockets[k].st = "open"
    /\ chan[k].waiters # <<>>
    /\ IF Oversize(len)
       THEN /\ sockets' = SweepSockets(calls, Destroyed(k), sessions)
            /\ sessObj' = SweepSessions(calls, Destroyed(k),
                                        IF sessObj[k].exists THEN OnControlSocketGone(k)
                                        ELSE sessObj, sessions)
            /\ chan' = [chan EXCEPT ![k].abort = "OversizeClipboardReply"]
            /\ UNCHANGED <<ops, calls, sessions, forward, fwdOwner, io>>
       ELSE LET o == ResolveWhich(chan[k].waiters) IN
            /\ chan' = [chan EXCEPT ![k].waiters = Without(@, o), ![k].replies = @ + 1]
            /\ ops' = [ops EXCEPT ![o] =
                         Finish([@ EXCEPT !.reply = chan[k].replies + 1, !.content = "reply",
                                          !.rlen = len],
                                "ok", "scrcpy")]
            /\ UNCHANGED <<engineVars, io>>

\* (mutant) a timed-out waiter stays registered
WaitersAfterTimeout_kept(ws, o) == ws

\* the waiter whose 2 s timer fired is taken out of the pending waiters
WaitersAfterTimeout(ws, o) == Without(ws, o)

\* no reply within 2 s: getClipboardViaScrcpy fails with ClipboardTimeout (or
\* resolves null); either way the handler logs and takes the ADB path
ClipTimeout(o) ==
    /\ ops[o].pc = "clip"
    /\ chan' = [k \in DOMAIN chan |-> [chan[k] EXCEPT !.waiters = WaitersAfterTimeout(@, o)]]
    /\ ops' = [ops EXCEPT ![o] = ScrcpyCatch(@)]
    /\ UNCHANGED <<engineVars, io>>

\* (mutant) the writer takes the newest queued message
NextToWrite_newest(wq) == wq[Len(wq)]

\* the single writer takes the oldest queued message
NextToWrite(wq) == Head(wq)

\* the writer of control socket k writes one whole message to the socket
WriterStep(k) ==
    /\ sockets[k].st = "open"
    /\ chan[k].wq # <<>>
    /\ LET m == NextToWrite(chan[k].wq) IN
         chan' = [chan EXCEPT ![k].wq = Without(@, m), ![k].wire = Append(@, m)]
    /\ UNCHANGED <<ops, engineVars, io>>

\* the queue of a broken transport is emptied: nothing queued is written later
Drained(ch) == [ch EXCEPT !.wq = <<>>]

\* the write of the oldest queued message fails: the socket emits "error" and
\* is destroyed, the session's error handler runs, the queue is drained
WriteFail(k) ==
    /\ sockets[k].st = "open"
    /\ sessObj[k].exists
    /\ chan[k].wq # <<>>
    /\ sockets' = SweepSockets(calls, Destroyed(k), sessions)
    /\ sessObj' = SweepSessions(calls, Destroyed(k), OnControlSocketGone(k), sessions)
    /\ chan' = [chan EXCEPT ![k] = Drained(@)]
    /\ UNCHANGED <<calls, sessions, forward, fwdOwner, ops, io>>

\* ---------------------------------------------------------------- tools specification
\* a session for devA as startSession leaves it: registered on socket 1 after
\* the dummy byte and the metadata, forward installed, invocation returned
LiveEngine ==
    /\ calls = [c \in Calls |-> NoCall]
    /\ sockets = [k \in SocketIds |->
                    IF k = 1 THEN [st |-> "open", peer |-> "server", rx |-> 77, chunks |-> 0]
                    ELSE NoSocket]
    /\ sessObj = [k \in SocketIds |-> IF k = 1 THEN NewSession("devA", 1) ELSE NoSession]
    /\ sessions = [s \in Serials |-> IF s = "devA" THEN 1 ELSE NoSock]
    /\ forward = "devA"
    /\ fwdOwner = NoSock

IdleEngine ==
    /\ calls = [c \in Calls |-> NoCall]
    /\ sockets = [k \in SocketIds |-> NoSocket]
    /\ sessObj = [k \in SocketIds |-> NoSession]
    /\ sessions = [s \in Serials |-> NoSock]
    /\ forward = NULL
    /\ fwdOwner = NoSock

InitTools ==
    /\ IdleEngine \/ LiveEngine
    /\ ops = [o \in 1..MaxOps |-> NoOp]
    /\ chan = [k \in SocketIds |-> NoChan]
    /\ io = NoIo

NextTools ==
    \/ \E o \in DOMAIN ops, kind \in ToolKinds, arg \in SerialArgs :
          \E inp \in ToolInputs(kind) : OpInvoke(o, kind, arg, inp)
    \/ \E o \in DOMAIN ops, devices \in DeviceLists, wr \in BOOLEAN : OpResolved(o, devices, wr)
    \/ \E o \in DOMAIN ops, wr \in BOOLEAN : OpWake(o, wr)
    \/ \E o \in DOMAIN ops, ok \in BOOLEAN :
          \E out \in OutputsOf(ops[o].cmd) : AdbSettled(o, ok, out)
    \/ \E k \in SocketIds, len \in ReplyLengths : ClipReply(k, len)
    \/ \E o \in DOMAIN ops : ClipTimeout(o)
    \/ \E k \in SocketIds : SocketClose(k)
    \/ \E k \in SocketIds : SocketError(k)

SpecTools == InitTools /\ [][NextTools]_vars

\* ---------------------------------------------------------------- concurrent tasks on one session
\* the operations the concurrent tasks run against devA's session; in this
\* specification every ADB command fails, so an operation that leaves the
\* scrcpy path ends with an error result
QueueKinds == {"tap", "clipboard_get", "clipboard_set"}

InitQueue ==
    /\ LiveEngine
    /\ ops = [o \in 1..MaxTasks |-> NoOp]
    /\ chan = [k \in SocketIds |-> NoChan]
    /\ io = NoIo

NextQueue ==
    \/ \E o \in DOMAIN ops, kind \in QueueKinds : OpInvoke(o, kind, "devA", NoInput)
    \/ \E o \in DOMAIN ops : OpResolved(o, {"devA"}, TRUE)
    \/ \E o \in DOMAIN ops : OpWake(o, TRUE)
    \/ \E o \in DOMAIN ops : \E out \in OutputsOf(ops[o].cmd) : AdbSettled(o, FALSE, out)
    \/ \E k \in SocketIds, len \in ReplyLengths : ClipReply(k, len)
    \/ \E o \in DOMAIN ops : ClipTimeout(o)
    \/ \E k \in SocketIds : WriterStep(k)
    \/ \E k \in SocketIds : WriteFail(k)
    \/ \E k \in SocketIds : SocketClose(k)

SpecQueue == InitQueue /\ [][NextQueue]_vars

\* the 2 s timer of a pending getClipboardViaScrcpy is a runtime timer: once
\* armed it fires
SpecQueueFair ==
    InitQueue /\ [][NextQueue]_vars /\ \A o \in 1..MaxTasks : WF_vars(ClipTimeout(o))

\* ================================================================ claims
\* bytes on the video socket up to the end of the metadata frame: the dummy
\* byte and the 76-byte frame
HandshakeBytes == 1 + DEVICE_META_SIZE

\* the errors startSession can throw
StartErrors == {"ServerNotFound", "NoDeviceAttached", "AmbiguousDevice",
                "AdbInvocationFailed", "ConnectError", "ConnectionTimeout",
                "MetadataTimeout", "SocketError"}

\* the claim's "live session": entry present, control socket connected and
\* not destroyed
LiveSession(s) ==
    /\ sessions[s] # NoSock
    /\ sessObj[sessions[s]].controlSocket # NoSock
    /\ sockets[sessObj[sessions[s]].controlSocket].st = "open"

\* C1: a session is in the table iff its socket(s) received the dummy byte and
\* the 76-byte metadata frame was read completely.  The session's one socket is
\* counted as both the video and the control socket.
C1_TableIffHandshake ==
    /\ \A s \in Serials :
          sessions[s] # NoSock => sockets[sessions[s]].rx >= HandshakeBytes
    /\ \A c \in Calls :
          (calls[c].kind = "start" /\ calls[c].pc = "meta")
              => sockets[calls[c].sock].rx < HandshakeBytes

\* C2: a close or error event on the control socket of a registered session
\* removes the session's entry from the table (getSession returns nothing).
C2_CloseRemovesEntry ==
    [][\A k \in SocketIds :
         ( /\ sessObj[k].exists
           /\ sessions[sessObj[k].serial] = k
           /\ sockets[k].st = "open"
           /\ sockets'[k].st # "open"
           /\ calls' = calls )
         => getSession(sessObj[k].serial)' = NoSock]_vars

\* C7: when startSession has failed, every socket it opened is destroyed and
\* the port forward it installed is gone.
C7_FailureCleansUp ==
    \A c \in Calls :
        (calls[c].kind = "start" /\ calls[c].pc = "failed")
            => /\ calls[c].sock # NoSock => sockets[calls[c].sock].st = "destroyed"
               /\ "forwarded" \in calls[c].did => fwdOwner # c

\* C8: a startSession that failed returned an error and added no table entry:
\* it never ran sessions.set and no entry holds a session built on its socket.
C8_FailedStartAddsNothing ==
    \A c \in Calls :
        (calls[c].kind = "start" /\ calls[c].pc = "failed")
            => /\ calls[c].result \in StartErrors
               /\ calls[c].session = NoSock
               /\ "register" \notin calls[c].did
               /\ \A s \in Serials :
                     calls[c].sock # NoSock => sessions[s] # calls[c].sock

C8_Witness ==
    \E c \in Calls :
        /\ calls[c].kind = "start" /\ calls[c].pc = "failed"
        /\ calls[c].result = "MetadataTimeout"
        /\ sockets[calls[c].sock].rx > 0
        /\ sessions[calls[c].serial] = NoSock

\* C9: when startSession reaches its check with a live session for the serial,
\* it returns that session, has run no push / forward / spawn / connect, and
\* the step changes nothing but the invocation's own record.
C9_LiveSessionReturned ==
    [][\A c \in Calls :
         ( /\ calls[c].kind = "start" /\ calls[c].pc = "resolve"
           /\ calls'[c].pc \notin {"resolve", "failed"}
           /\ LiveSession(calls'[c].serial) )
         => /\ calls'[c].pc = "done"
            /\ calls'[c].result = "ok"
            /\ calls'[c].session = sessions[calls'[c].serial]
            /\ calls'[c].did = {}
            /\ <<sockets, sessObj, sessions, forward, fwdOwner>>'
                 = <<sockets, sessObj, sessions, forward, fwdOwner>>]_vars

C9_Witness ==
    \E c \in Calls :
        /\ calls[c].kind = "start" /\ calls[c].pc = "done"
        /\ calls[c].did = {}
        /\ LiveSession(calls[c].serial)
        /\ calls[c].session = sessions[calls[c].serial]

\* C10: a connection counts as a ready scrcpy socket only after one dummy byte
\* was read from it; a connection to the empty tunnel is closed (and retried).
C10_ReadyOnlyAfterDummyByte ==
    \A c \in Calls :
        (calls[c].kind = "start" /\ calls[c].sock # NoSock)
            => /\ calls[c].pc = "meta" => sockets[calls[c].sock].rx >= 1
               /\ (calls[c].pc = "failed" /\ sockets[calls[c].sock].peer = "tunnel")
                     => sockets[calls[c].sock].st = "destroyed"

\* ---------------------------------------------------------------- tool-handler claims
\* every ADB command the operation's ADB path ran exited with status 0
AdbAllOk(op) == \A j \in 1..Len(op.adb) : op.adb[j].ok

\* the ADB path produced what the operation is for: every command succeeded
\* and, for clipboard_get, some command's output held the clipboard text
FallbackYielded(op) ==
    /\ AdbAllOk(op)
    /\ op.kind = "clipboard_get" =>
          \E j \in 1..Len(op.adb) :
             \/ op.adb[j].cmd = "cmd clipboard get" /\ CmdClipboardUsable(op.adb[j].out)
             \/ /\ op.adb[j].cmd = "service call clipboard 2"
                /\ ParseServiceCall(op.adb[j].out) # NULL

\* a routable operation that returned after its scrcpy path threw
FellBack(o) ==
    /\ ops[o].kind \in Routable
    /\ ops[o].logged
    /\ ops[o].pc = "done"

\* C3 (as stated): after the scrcpy path threw, the operation ran its ADB
\* fallback, returned success if the ADB commands succeeded, and returned an
\* error only if an ADB command failed.
C3_ErrorOnlyIfAdbCommandFails ==
    \A o \in DOMAIN ops :
        FellBack(o) =>
            /\ ops[o].adb # <<>>
            /\ AdbAllOk(ops[o]) => ops[o].result = "ok"
            /\ ops[o].result = "error" => ~AdbAllOk(ops[o])

\* C3 (amended): after the scrcpy path threw, the operation ran its ADB
\* fallback; it returned success from ADB exactly when the fallback yielded
\* its result (every command succeeded and, for clipboard_get, the output held
\* a clipboard text), and an error result otherwise.
C3_FallbackDecidesResult ==
    \A o \in DOMAIN ops :
        /\ (ops[o].kind \in Routable /\ ops[o].logged) => ops[o].pc \in {"adb", "done"}
        /\ FellBack(o) =>
            /\ ops[o].adb # <<>>
            /\ FallbackYielded(ops[o]) => ops[o].result = "ok" /\ ops[o].source = "adb"
            /\ ~FallbackYielded(ops[o]) => ops[o].result = "error"

\* a tap whose first write threw while the session was active, completed by ADB
C3_Witness ==
    \E o \in DOMAIN ops :
        /\ FellBack(o) /\ ops[o].kind = "tap" /\ ops[o].sent = <<>>
        /\ hasActiveSession(ops[o].serial)
        /\ ops[o].result = "ok" /\ ops[o].source = "adb"

\* C4: a tool handler never throws to the tool framework: a handler that has
\* ended returned a result object, and a failed serial resolution or a failed
\* last ADB command is returned as {error: true, message}.
C4_HandlersNeverThrow ==
    \A o \in DOMAIN ops :
        /\ ops[o].result \in {"none", "ok", "error"}
        /\ ops[o].pc = "done" <=> ops[o].result \in {"ok", "error"}
        /\ (ops[o].pc = "done" /\ ops[o].serial \notin Serials) => ops[o].result = "error"
        /\ (ops[o].pc = "done" /\ ops[o].adb # <<>> /\ ~ops[o].adb[Len(ops[o].adb)].ok)
              => ops[o].result = "error"

\* shell_exec whose ADB command failed: the outer catch returned the error
C4_Witness ==
    \E o \in DOMAIN ops :
        /\ ops[o].kind = "shell_exec" /\ ops[o].pc = "done"
        /\ ops[o].adb # <<>> /\ ~AdbAllOk(ops[o])
        /\ ops[o].result = "error"

\* ---------------------------------------------------------------- queue claims
\* C5: on every control socket the messages written so far are exactly the
\* first messages enqueued, in enqueue order (tickets 1, 2, ...), the queue
\* holds the following ones in order (all of them while the socket is open),
\* and every unit on the wire is one whole message as its operation built it.
C5_WritesInEnqueueOrder ==
    \A k \in SocketIds :
        /\ \A j \in 1..Len(chan[k].wire) : chan[k].wire[j].t = j
        /\ \A j \in 1..Len(chan[k].wq) : chan[k].wq[j].t = Len(chan[k].wire) + j
        /\ Len(chan[k].wire) + Len(chan[k].wq) <= chan[k].enq
        /\ sockets[k].st = "open" => Len(chan[k].wire) + Len(chan[k].wq) = chan[k].enq
        /\ \A j \in 1..Len(chan[k].wire) :
              \E i \in 1..Len(ops[chan[k].wire[j].o].sent) :
                 ops[chan[k].wire[j].o].sent[i] = chan[k].wire[j].m

\* the DOWN/UP pairs of two concurrent taps interleaved on the wire
C5_Witness ==
    \E k \in SocketIds :
        /\ Len(chan[k].wire) = 4
        /\ chan[k].wire[1].o # chan[k].wire[2].o
        /\ chan[k].wire[3].o = chan[k].wire[1].o
        /\ chan[k].wire[4].o = chan[k].wire[2].o
        /\ \A j \in 1..4 : chan[k].wire[j].m.type = "INJECT_TOUCH_EVENT"

\* C6: clipboard replies resolve waiters first-in-first-out: the pending
\* waiters are queued in enqueue order, no reply has passed over an older
\* waiter still pending, and of two calls resolved by replies the one
\* enqueued first received the earlier reply.
C6_WaitersFifo ==
    /\ \A k \in SocketIds : \A i, j \in 1..Len(chan[k].waiters) :
          i < j => ops[chan[k].waiters[i]].ticket < ops[chan[k].waiters[j]].ticket
    /\ \A a, b \in DOMAIN ops :
          (ops[a].pc = "clip" /\ ops[b].reply > 0) => ops[b].ticket < ops[a].ticket
    /\ \A a, b \in DOMAIN ops :
          (ops[a].reply > 0 /\ ops[b].reply > 0 /\ ops[a].ticket < ops[b].ticket)
              => ops[a].reply < ops[b].reply

\* two clipboard_get calls pending together, then resolved by replies 1 and 2
C6_Witness ==
    \E a, b \in DOMAIN ops :
        /\ ops[a].ticket = 1 /\ ops[b].ticket = 2 /\ ops[b].pos = 2
        /\ ops[a].reply = 1 /\ ops[b].reply = 2
        /\ ops[a].source = "scrcpy" /\ ops[b].source = "scrcpy"

\* ---------------------------------------------------------------- session life cycle claims
\* the sockets other than its own that are connected and have delivered the
\* dummy byte while invocation c runs
OtherVerifiedSockets(c) ==
    {k \in SocketIds \ {calls[c].sock} : sockets[k].st = "open" /\ sockets[k].rx >= 1}

\* C11: when startSession has read a metadata byte (a byte past the dummy
\* byte) from its video socket, a second socket, the control socket, is
\* connected and has delivered its dummy byte.
C11_BothSocketsBeforeMetadata ==
    \A c \in Calls :
        ( /\ calls[c].kind = "start" /\ calls[c].pc \in {"meta", "done"}
          /\ calls[c].sock # NoSock
          /\ sockets[calls[c].sock].rx >= 2 )
            => OtherVerifiedSockets(c) # {}

\* the life-cycle phase of serial s as the program's state shows it
Phase(s) ==
    IF hasActiveSession(s) THEN "Ready"
    ELSE IF \E c \in Calls : /\ calls[c].kind = "start" /\ calls[c].serial = s
                             /\ calls[c].pc \in {"push", "forward", "sleep", "connect", "meta"}
    THEN "Connecting"
    ELSE IF sessions[s] # NoSock THEN "Closing"
    ELSE "Absent"

AllowedTransitions ==
    {<<"Absent", "Connecting">>, <<"Connecting", "Ready">>, <<"Connecting", "Absent">>,
     <<"Ready", "Closing">>, <<"Closing", "Absent">>}

\* C12: the phase of every serial changes only along Absent -> Connecting ->
\* Ready -> Closing -> Absent and Connecting -> Absent.
C12_OnlyAllowedTransitions ==
    [][\A s \in Serials :
          Phase(s)' # Phase(s) => <<Phase(s), Phase(s)'>> \in AllowedTransitions]_vars

\* hasActiveSession(s) is false in the next state
InactiveNext(s) ==
    \/ sessions'[s] = NoSock
    \/ sessObj'[sessions'[s]].controlSocket = NoSock
    \/ sockets'[sessObj'[sessions'[s]].controlSocket].st = "destroyed"

\* C13: stopSession on a registered session destroys and clears the control
\* socket when it starts, leaves the table entry and the forward alone while
\* pkill runs, and deletes the entry in the step in which the forward removal
\* settles; a failure of pkill or of the forward removal does not make it
\* fail, and when it returns the serial has no entry and no active session.
C13_StopOrder ==
    [][\A c \in Calls :
         /\ (calls[c].kind = "stop" /\ calls'[c].pc = "failed")
               => calls[c].pc \in {"resolve", "failed"}
         /\ (calls[c].kind = "stop" /\ calls[c].pc = "resolve" /\ calls'[c].pc = "pkill")
               => /\ sessObj'[calls'[c].session].controlSocket = NoSock
                  /\ InactiveNext(calls'[c].serial)
                  /\ sessions' = sessions /\ forward' = forward
         /\ (calls[c].kind = "stop" /\ calls[c].pc = "pkill" /\ calls'[c].pc # "pkill")
               => /\ calls'[c].pc = "unforward"
                  /\ sessions' = sessions /\ forward' = forward
         /\ (calls[c].kind = "stop" /\ calls[c].pc = "unforward" /\ calls'[c].pc # "unforward")
               => /\ calls'[c].pc = "done" /\ calls'[c].result = "ok"
                  /\ forward' \in {forward, NULL}
                  /\ sessions'[calls[c].serial] = NoSock
                  /\ getSession(calls[c].serial)' = NoSock
                  /\ ~hasActiveSession(calls[c].serial)']_vars

\* a stopSession that found a registered session and has returned
C13_Witness ==
    \E c \in Calls :
        /\ calls[c].kind = "stop" /\ calls[c].pc = "done"
        /\ calls[c].session # NoSock
        /\ sessions[calls[c].serial] = NoSock
        /\ forward = NULL

\* ---------------------------------------------------------------- two devices
\* both devices stay attached and every call names its serial
NextMulti ==
    \/ \E c \in Calls, arg \in Serials, found \in BOOLEAN : StartInvoke(c, arg, found)
    \/ \E c \in Calls : StartResolved(c, Serials)
    \/ \E c \in Calls, ok \in BOOLEAN : StartPushed(c, ok)
    \/ \E c \in Calls, ok \in BOOLEAN : StartForwarded(c, ok)
    \/ \E c \in Calls : StartConnect(c)
    \/ \E c \in Calls, peer \in {"server", "tunnel"} : ConnectOk(c, peer)
    \/ \E c \in Calls : ConnectError(c)
    \/ \E c \in Calls : ConnectTimeout(c)
    \/ \E c \in Calls, n \in ChunkSizes : MetaData(c, n)
    \/ \E c \in Calls : MetaTimeout(c)
    \/ \E c \in Calls : MetaSocketError(c)
    \/ \E k \in SocketIds : SocketClose(k)
    \/ \E k \in SocketIds : SocketError(k)
    \/ \E c \in Calls, arg \in Serials : StopInvoke(c, arg)
    \/ \E c \in Calls : StopResolved(c, Serials)
    \/ \E c \in Calls, ok \in BOOLEAN : StopPkilled(c, ok)
    \/ \E c \in Calls, ok \in BOOLEAN : StopUnforwarded(c, ok)
    \/ \E c \in Calls : Return(c)

SpecMulti == Init /\ [][NextMulti]_vars

\* C20: a step of a startSession or stopSession for one serial leaves every
\* other serial's table entry, session object, socket and port forward as
\* they were.
C20_OtherSerialsUntouched ==
    [][\A c \in Calls : \A s \in Serials :
         ( /\ calls'[c] # calls[c]
           /\ calls'[c].kind \in {"start", "stop"}
           /\ calls'[c].serial \in Serials \ {s} )
         => /\ sessions'[s] = sessions[s]
            /\ forward = s => forward' = s
            /\ sessions[s] # NoSock
                => /\ sessObj'[sessions[s]] = sessObj[sessions[s]]
                   /\ sockets'[sessions[s]] = sockets[sessions[s]]]_vars

\* C18: when the serial cannot be resolved (no device, or several devices and
\* no serial given) the operation ends at once with an error result: no scrcpy
\* message was built or queued for it and no ADB command was run.
C18_ResolveFailureIsImmediateError ==
    \A o \in DOMAIN ops :
        ops[o].error \in ResolveErrors
            => /\ ops[o].pc = "done"
               /\ ops[o].result = "error"
               /\ ops[o].sent = <<>>
               /\ ops[o].adb = <<>>
               /\ ops[o].cmd = "none"
               /\ ~ops[o].logged
               /\ \A k \in SocketIds :
                    /\ \A i \in DOMAIN chan[k].wq : chan[k].wq[i].o # o
                    /\ \A i \in DOMAIN chan[k].wire : chan[k].wire[i].o # o

\* a routable operation failed to resolve its serial although a session is live
C18_Witness ==
    \E o \in DOMAIN ops :
        /\ ops[o].error \in ResolveErrors
        /\ ops[o].kind \in Routable
        /\ ops[o].result = "error"
        /\ hasActiveSession("devA")

\* C19: an input_text whose text is longer than TEXT_MAX_LENGTH bytes on the
\* scrcpy path ends with the TextTooLong error: the ADB `input text` command
\* is not run for it.
C19_TextTooLongNoFallback ==
    \A o \in DOMAIN ops :
        ( /\ ops[o].kind = "input_text"
          /\ TextTooLong(ops[o].inp.text)
          /\ ops[o].logged )
            => /\ ops[o].cmd # "input text"
               /\ ops[o].adb = <<>>

\* C14: a failed write on a session's control socket leaves nothing queued for
\* that session and tears the session down: it is not reported active and
\* its table entry is gone.
C14_WriteFailureTearsDown ==
    [][\A k \in SocketIds : \A s \in Serials :
         (WriteFail(k) /\ sessions[s] = k)
            => /\ chan'[k].wq = <<>>
               /\ InactiveNext(s)
               /\ sessions'[s] = NoSock]_vars

\* a clipboard_get whose waiter was registered and then timed out
TimedOut(o) == ops[o].kind = "clipboard_get" /\ ops[o].ticket > 0 /\ ops[o].logged

\* C15: every clipboard_get waiting for its reply eventually stops waiting (a
\* reply resolves it, or its 2 s timer fails it, also after the session's
\* socket is gone), and a waiter that timed out is never resolved by a reply
\* that arrives later.
C15_WaitersComplete ==
    /\ \A o \in 1..MaxTasks : (ops[o].pc = "clip") ~> (ops[o].pc # "clip")
    /\ [](\A o \in 1..MaxTasks :
            TimedOut(o) => /\ ops[o].reply = 0
                           /\ ops[o].source # "scrcpy"
                           /\ \A k \in SocketIds :
                                \A i \in DOMAIN chan[k].waiters : chan[k].waiters[i] # o)

\* one waiter timed out and a reply that came afterwards resolved a younger one
C15_Witness ==
    \E o1, o2 \in DOMAIN ops :
        /\ TimedOut(o1)
        /\ ops[o2].reply > 0
        /\ ops[o2].ticket > ops[o1].ticket

\* C16: a clipboard reply whose length field is above MAX_CLIPBOARD_BYTES
\* resolves no waiter (no operation ever holds a reply longer than the limit)
\* and aborts the session with OversizeClipboardReply: the control socket is
\* not open and the session is not active afterwards.
C16_OversizeReplyAborts ==
    /\ \A o \in DOMAIN ops : ops[o].rlen <= MAX_CLIPBOARD_BYTES
    /\ \A k \in SocketIds :
         chan[k].abort = "OversizeClipboardReply"
            => /\ sockets[k].st # "open"
               /\ \A s \in Serials : sessions[s] = k => ~hasActiveSession(s)

\* an oversize reply arrived while a clipboard_get was waiting, which still waits
C16_Witness ==
    \E k \in SocketIds, o \in DOMAIN ops :
        /\ chan[k].abort = "OversizeClipboardReply"
        /\ ops[o].pc = "clip"
        /\ ops[o].rlen = 0
        /\ sessions["devA"] = k

\* the SET_CLIPBOARD messages of control socket k in the order they were sent
SetClipboardSent(k) ==
    SelectSeq(chan[k].wire \o chan[k].wq, LAMBDA e : e.m.type = "SET_CLIPBOARD")

\* C17: within one session the j-th SET_CLIPBOARD message sent carries
\* sequence number j: the numbers start at 1, increase strictly in call order
\* and none is used twice, also when the calls come from concurrent tasks.
C17_SequenceNumbersIncrease ==
    /\ \A k \in SocketIds :
         \A j \in DOMAIN SetClipboardSent(k) : SetClipboardSent(k)[j].m.n = j
    /\ \A o1, o2 \in DOMAIN ops :
         ( /\ o1 # o2
           /\ ops[o1].kind = "clipboard_set" /\ ops[o1].sent # <<>>
           /\ ops[o2].kind = "clipboard_set" /\ ops[o2].sent # <<>> )
            => /\ ops[o1].sent[1].n # ops[o2].sent[1].n
               /\ ops[o1].sent[1].n >= 1

\* two concurrent tasks each sent a SET_CLIPBOARD message on the same session
C17_Witness ==
    \E o1, o2 \in DOMAIN ops :
        /\ ops[o1].kind = "clipboard_set" /\ ops[o1].sent # <<>>
        /\ ops[o2].kind = "clipboard_set" /\ ops[o2].sent # <<>>
        /\ ops[o1].sent[1].n = 1
        /\ ops[o2].sent[1].n = 2
        /\ Len(SetClipboardSent(1)) = 2

WaitsOnDeadTunnel(c) ==
    /\ calls[c].kind = "start" /\ calls[c].pc = "meta"
    /\ sockets[calls[c].sock].peer # "server"

InitOverlap ==
    /\ calls = [c \in 1..MaxStarts |-> NoCall]
    /\ sockets = [k \in SocketIds |-> NoSocket]
    /\ sessObj = [k \in SocketIds |-> NoSession]
    /\ sessions = [s \in Serials |-> NoSock]
    /\ forward = NULL
    /\ fwdOwner = NoSock
    /\ ops = <<>>
    /\ chan = <<>>
    /\ io = NoIo

NextOverlap ==
    \/ \E c \in 1..MaxStarts : StartInvoke(c, "devA", TRUE)
    \/ \E c \in 1..MaxStarts : StartResolved(c, {"devA"})
    \/ \E c \in 1..MaxStarts : StartPushed(c, TRUE)
    \/ \E c \in 1..MaxStarts : StartForwarded(c, TRUE)
    \/ \E c \in 1..MaxStarts : StartConnect(c)
    \/ \E c \in 1..MaxStarts : ConnectOk(c, "server")
    \/ \E c \in 1..MaxStarts, n \in ChunkSizes : MetaData(c, n)
    \/ \E c \in 1..MaxStarts : MetaTimeout(c)
    \/ \E c \in 1..MaxStarts : Return(c)

SpecOverlap == InitOverlap /\ [][NextOverlap]_vars

\* the startSession calls that have spawned a server and have not settled yet
SpawnedUnsettled ==
    {c \in DOMAIN calls : /\ calls[c].kind = "start"
                          /\ "spawn" \in calls[c].did
                          /\ calls[c].pc \notin {"done", "failed"}}

\* C30: of the startSession calls for one serial that overlap at most one has
\* spawned a server, and once they have all registered, every socket still
\* open is the socket of the session in the table.
C30_OverlappingStartsShareOneSession ==
    /\ Cardinality(SpawnedUnsettled) <= 1
    /\ (\A c \in DOMAIN calls : calls[c].kind = "start" /\ "register" \in calls[c].did)
          => \A k \in SocketIds :
                sockets[k].st = "open" => \E s \in Serials : sessions[s] = k

\* the tools that have a scrcpy codec
HasScrcpyCodec(kind) ==
    kind \in {"tap", "swipe", "long_press", "drag_drop", "input_text", "key_event",
              "scroll", "clipboard_get", "clipboard_set"}

\* the scrcpy path of operation record op was entered: a message was sent or
\* the inner catch logged its failure
Attempted(op) == op.sent # <<>> \/ op.logged

U16BE(b, off) == b[off + 1] * 256 + b[off + 2]
U32BE(b, off) == U16BE(b, off) * 65536 + U16BE(b, off + 2)

\* the w-byte big-endian encoding of n, two's complement for a negative n
RECURSIVE ToBE(_, _)
ToBE(n, w) == IF w = 0 THEN <<>> ELSE Append(ToBE((n - (n % 256)) \div 256, w - 1), n % 256)

\* n copies of byte x
Fill(x, n) == [i \in 1..n |-> x]

\* ---------------------------------------------------------------- metadata reader
MaxSpill == 2        \* video bytes that follow the metadata in the stream

\* what the server writes on the first socket: the dummy byte, the 64-byte
\* null-padded device name, codec id ("h264"), width, height (u32be each),
\* then video
DeviceNames == {<<80, 105, 120, 101, 108>>, <<80, 105, 120, 101, 108, 32, 56, 97>>}
VideoSizes == {<<1080, 1920>>, <<720, 1280>>}
MetaStream(name, size, spill) ==
    <<0>> \o name \o Fill(0, 64 - Len(name)) \o ToBE(1748121140, 4)
          \o ToBE(size[1], 4) \o ToBE(size[2], 4) \o [i \in 1..spill |-> 170 + i]

\* where TCP may cut the stream into "data" events
CutPoints == {1, 40, 67, 68, 77, 78}
Chunks(stream, a, b) ==
    SelectSeq(<<SubSeq(stream, 1, a), SubSeq(stream, a + 1, b),
                SubSeq(stream, b + 1, Len(stream))>>,
              LAMBDA ch : ch # <<>>)

\* receiveDeviceMeta: onData appends each chunk to the buffer; once the buffer
\* holds META_RESOLVE_LEN bytes the listener is removed and the promise
\* resolves {width, height} read as u16 at offsets 5 and 7 of the buffer. The
\* buffer is local to the promise: nothing of it is handed on. A stream that
\* ends earlier leaves the promise to its timer.
RECURSIVE receiveDeviceMeta(_, _)
receiveDeviceMeta(chunks, buffer) ==
    IF MetaComplete(Len(buffer))
    THEN [ok |-> TRUE, width |-> U16BE(buffer, 5), height |-> U16BE(buffer, 7),
          read |-> Len(buffer), overflow |-> <<>>]
    ELSE IF chunks = <<>>
    THEN [ok |-> FALSE, width |-> 0, height |-> 0, read |-> Len(buffer), overflow |-> <<>>]
    ELSE receiveDeviceMeta(Tail(chunks), buffer \o Head(chunks))

CallReceiveDeviceMeta(name, size, spill, a, b) ==
    /\ io.fn = "none"
    /\ a <= b /\ b <= DEVICE_META_SIZE + 1 + spill
    /\ LET stream == MetaStream(name, size, spill) IN
         io' = [fn |-> "receiveDeviceMeta",
                arg |-> [stream |-> stream, chunks |-> Chunks(stream, a, b)],
                out |-> receiveDeviceMeta(Chunks(stream, a, b), <<>>)]
    /\ UNCHANGED <<engineVars, ops, chan>>

\* ---------------------------------------------------------------- control message encoders
CONTROL_MSG_TYPE_INJECT_KEYCODE == 0
CONTROL_MSG_TYPE_INJECT_TEXT == 1
CONTROL_MSG_TYPE_INJECT_TOUCH_EVENT == 2
CONTROL_MSG_TYPE_INJECT_SCROLL_EVENT == 3
CONTROL_MSG_TYPE_EXPAND_NOTIFICATION_PANEL == 5
CONTROL_MSG_TYPE_EXPAND_SETTINGS_PANEL == 6
CONTROL_MSG_TYPE_COLLAPSE_PANELS == 7
CONTROL_MSG_TYPE_GET_CLIPBOARD == 8
CONTROL_MSG_TYPE_SET_CLIPBOARD == 9
CONTROL_MSG_TYPE_SET_DISPLAY_POWER == 10
CONTROL_MSG_TYPE_ROTATE_DEVICE == 11
CONTROL_MSG_TYPE_START_APP == 16
PACKAGE_NAME_MAX == 255

Serializers ==
    {"serializeInjectKeycode", "serializeInjectText", "serializeInjectTouchEvent",
     "serializeInjectScrollEvent", "serializeExpandNotificationPanel",
     "serializeExpandSettingsPanel", "serializeCollapsePanels", "serializeGetClipboard",
     "serializeSetClipboard", "serializeSetDisplayPower", "serializeRotateDevice",
     "serializeStartApp"}

\* (mutant) the type ids of the v2 protocol: SET_DISPLAY_POWER 4, ROTATE_DEVICE 10
TypeByte_v2(fn) ==
    CASE fn = "serializeInjectKeycode" -> 0
      [] fn = "serializeInjectText" -> 1
      [] fn = "serializeInjectTouchEvent" -> 2
      [] fn = "serializeInjectScrollEvent" -> 3
      [] fn = "serializeSetDisplayPower" -> 4
      [] fn = "serializeExpandNotificationPanel" -> 5
      [] fn = "serializeExpandSettingsPanel" -> 6
      [] fn = "serializeCollapsePanels" -> 7
      [] fn = "serializeGetClipboard" -> 8
      [] fn = "serializeSetClipboard" -> 9
      [] fn = "serializeRotateDevice" -> 10
      [] fn = "serializeStartApp" -> 16

\* the type constant each encoder writes at byte 0
TypeByte(fn) ==
    CASE fn = "serializeInjectKeycode" -> CONTROL_MSG_TYPE_INJECT_KEYCODE
      [] fn = "serializeInjectText" -> CONTROL_MSG_TYPE_INJECT_TEXT
      [] fn = "serializeInjectTouchEvent" -> CONTROL_MSG_TYPE_INJECT_TOUCH_EVENT
      [] fn = "serializeInjectScrollEvent" -> CONTROL_MSG_TYPE_INJECT_SCROLL_EVENT
      [] fn = "serializeExpandNotificationPanel" -> CONTROL_MSG_TYPE_EXPAND_NOTIFICATION_PANEL
      [] fn = "serializeExpandSettingsPanel" -> CONTROL_MSG_TYPE_EXPAND_SETTINGS_PANEL
      [] fn = "serializeCollapsePanels" -> CONTROL_MSG_TYPE_COLLAPSE_PANELS
      [] fn = "serializeGetClipboard" -> CONTROL_MSG_TYPE_GET_CLIPBOARD
      [] fn = "serializeSetClipboard" -> CONTROL_MSG_TYPE_SET_CLIPBOARD
      [] fn = "serializeSetDisplayPower" -> CONTROL_MSG_TYPE_SET_DISPLAY_POWER
      [] fn = "serializeRotateDevice" -> CONTROL_MSG_TYPE_ROTATE_DEVICE
      [] fn = "serializeStartApp" -> CONTROL_MSG_TYPE_START_APP

\* a text of the model: n copies of the character with code point ch
Utf8Char(ch) ==
    IF ch < 128 THEN <<ch>>
    ELSE IF ch < 2048 THEN <<192 + (ch \div 64), 128 + (ch % 64)>>
    ELSE <<224 + (ch \div 4096), 128 + ((ch \div 64) % 64), 128 + (ch % 64)>>

\* Buffer.from(text, "utf8")
Utf8(text) ==
    LET c == Utf8Char(text.ch) IN
    [i \in 1..(text.n * Len(c)) |-> c[((i - 1) % Len(c)) + 1]]

Min(a, b) == IF a <= b THEN a ELSE b

\* (mutant) the scroll amount is scaled without being clamped
ScrollToI16_unclamped(v) == v * 2048

\* a scroll amount in sixteenths: clamped to [-16, 16] (that is [-1, 1]), scaled
\* by 2^15, the positive end saturated at 0x7FFF
ScrollToI16(v) == Min(Max(-16, Min(16, v)) * 2048, 32767)

\* pressure 0..1 as unsigned 16-bit fixed point, saturated at 0xFFFF
PressureToU16(p) == Min(Max(0, Min(1, p)) * 65536, 65535)

\* (mutant) the limit is applied to the number of characters
TextBytes_chars(text) == text.n

\* the length the encoders check and write: the UTF-8 byte length
TextBytes(text) == Len(Utf8(text))

Encoded(bytes) == [ok |-> TRUE, err |-> "none", bytes |-> bytes]
Thrown(err) == [ok |-> FALSE, err |-> err, bytes |-> <<>>]

\* the serialize* functions of the control channel on argument record a
ControlMessage(fn, a) ==
    CASE fn = "serializeInjectKeycode" ->
            Encoded(<<TypeByte(fn), a.action>> \o ToBE(a.keycode, 4) \o ToBE(a.repeat, 4)
                    \o ToBE(a.metaState, 4))
      [] fn = "serializeInjectText" ->
            IF TextBytes(a.text) > TEXT_MAX_LENGTH THEN Thrown("TextTooLong")
            ELSE Encoded(<<TypeByte(fn)>> \o ToBE(Len(Utf8(a.text)), 4) \o Utf8(a.text))
      [] fn = "serializeInjectTouchEvent" ->
            Encoded(<<TypeByte(fn), a.action>> \o ToBE(a.pointerId, 8)
                    \o ToBE(a.x, 4) \o ToBE(a.y, 4) \o ToBE(a.width, 2) \o ToBE(a.height, 2)
                    \o ToBE(PressureToU16(a.pressure), 2) \o ToBE(0, 4) \o ToBE(0, 4))
      [] fn = "serializeInjectScrollEvent" ->
            Encoded(<<TypeByte(fn)>> \o ToBE(a.x, 4) \o ToBE(a.y, 4)
                    \o ToBE(a.width, 2) \o ToBE(a.height, 2)
                    \o ToBE(ScrollToI16(a.hScroll), 2) \o ToBE(ScrollToI16(a.vScroll), 2)
                    \o ToBE(a.buttons, 4))
      [] fn \in {"serializeExpandNotificationPanel", "serializeExpandSettingsPanel",
                 "serializeCollapsePanels", "serializeRotateDevice"} ->
            Encoded(<<TypeByte(fn)>>)
      [] fn = "serializeGetClipboard" -> Encoded(<<TypeByte(fn), a.copyKey>>)
      [] fn = "serializeSetClipboard" ->
            Encoded(<<TypeByte(fn)>> \o ToBE(a.sequence, 8) \o <<IF a.paste THEN 1 ELSE 0>>
                    \o ToBE(Len(Utf8(a.text)), 4) \o Utf8(a.text))
      [] fn = "serializeSetDisplayPower" -> Encoded(<<TypeByte(fn), IF a.on THEN 1 ELSE 0>>)
      [] fn = "serializeStartApp" ->
            IF Len(Utf8(a.text)) > PACKAGE_NAME_MAX THEN Thrown("PackageNameTooLong")
            ELSE Encoded(<<TypeByte(fn), Len(Utf8(a.text))>> \o Utf8(a.text))

\* the arguments the encoders are called with
MaxScroll == 17      \* largest scroll amount, in sixteenths
Characters == {97, 233, 8364}
TextCounts == {0, 1, 2, 99, 100, 101, 149, 150, 151, 299, 300, 301}
NoArgs == [action |-> 0, keycode |-> 0, repeat |-> 0, metaState |-> 0,
           text |-> [ch |-> 97, n |-> 0], pointerId |-> 0, x |-> 0, y |-> 0,
           width |-> 1080, height |-> 2400, pressure |-> 0, hScroll |-> 0, vScroll |-> 0,
           buttons |-> 0, copyKey |-> 0, sequence |-> 0, paste |-> FALSE, on |-> FALSE]
SerializerInputs(fn) ==
    CASE fn = "serializeInjectKeycode" ->
            {[NoArgs EXCEPT !.action = ac, !.keycode = k, !.repeat = r, !.metaState = m] :
                ac \in {ACTION_DOWN, ACTION_UP}, k \in {3, 66}, r \in {0, 3}, m \in {0, 65}}
      [] fn \in {"serializeInjectText", "serializeStartApp"} ->
            {[NoArgs EXCEPT !.text = [ch |-> c, n |-> n]] :
                c \in Characters, n \in TextCounts}
      [] fn = "serializeInjectTouchEvent" ->
            {[NoArgs EXCEPT !.action = ac, !.pointerId = id,
                            !.x = 540, !.y = 1200, !.pressure = p] :
                ac \in {ACTION_DOWN, ACTION_UP, ACTION_MOVE}, id \in {-2, -1}, p \in 0..2}
      [] fn = "serializeInjectScrollEvent" ->
            {[NoArgs EXCEPT !.x = 540, !.y = 1200, !.hScroll = h, !.vScroll = v] :
                h \in {-MaxScroll, 0, 16}, v \in (-MaxScroll)..MaxScroll}
      [] fn = "serializeGetClipboard" -> {[NoArgs EXCEPT !.copyKey = k] : k \in 0..2}
      [] fn = "serializeSetClipboard" ->
            {[NoArgs EXCEPT !.sequence = q, !.paste = p, !.text = [ch |-> c, n |-> 2]] :
                q \in {0, 1, 42}, p \in BOOLEAN, c \in Characters}
      [] fn = "serializeSetDisplayPower" -> {[NoArgs EXCEPT !.on = b] : b \in BOOLEAN}
      [] OTHER -> {NoArgs}

CallSerialize(fn, a) ==
    /\ io.fn = "none"
    /\ io' = [fn |-> fn, arg |-> a, out |-> ControlMessage(fn, a)]
    /\ UNCHANGED <<engineVars, ops, chan>>

\* ---------------------------------------------------------------- parseLsOutput
\* A line of `ls -la` output after trim(), as its whitespace-separated fields.
MaxLines == 3        \* lines in one output
PermTokens == {"drwxrwxrwx", "-rw-rw----", "lrwxrwxrwx", "-rw-r--r--."}
DateTokens == {"2024-03-10"}
TimeTokens == {"09:15"}

\* parseInt(sizeStr, 10) on the digit strings of the model; -1 for a field
\* that is not \d+
LsNumber(tok) ==
    CASE tok = "1" -> 1 [] tok = "2" -> 2 [] tok = "7" -> 7
      [] tok = "48" -> 48 [] tok = "1024" -> 1024 [] tok = "4096" -> 4096
      [] OTHER -> -1

LsLines ==
    { <<>>,
      <<"total", "48">>,
      <<"not", "a", "valid", "ls", "line">>,
      <<"drwxrwxrwx", "2", "root", "sdcard_rw", "4096", "2024-03-10", "09:15", "DCIM">>,
      <<"-rw-rw----", "1", "root", "sdcard_rw", "1024", "2024-03-10", "09:15", "notes.txt">>,
      <<"-rw-r--r--.", "1", "root", "root", "7", "2024-03-10", "09:15", "my", "file">>,
      <<"lrwxrwxrwx", "1", "root", "root", "7", "2024-03-10", "09:15", "sdcard", "->",
        "/sdcard">>,
      <<"-rw-rw----", "1", "root", "sdcard_rw", "1024", "2024-03-10", "09:15">>,
      <<"-rw-rw----", "1", "root", "sdcard_rw", "big", "2024-03-10", "09:15", "x.bin">> }

\* `!trimmed || trimmed.startsWith("total ")`
LsSkipped(line) == line = <<>> \/ (Len(line) >= 2 /\ line[1] = "total")

\* the regular expression of parseLsOutput on the fields of a line
LsMatch(line) ==
    /\ Len(line) >= 8
    /\ line[1] \in PermTokens
    /\ LsNumber(line[2]) >= 0
    /\ LsNumber(line[5]) >= 0
    /\ line[6] \in DateTokens
    /\ line[7] \in TimeTokens

\* namePart.split(" -> ")[0]: the fields of the name before a "->" field
RECURSIVE LsName(_)
LsName(fields) ==
    IF fields = <<>> \/ Head(fields) = "->" THEN <<>>
    ELSE <<Head(fields)>> \o LsName(Tail(fields))

\* the FileEntry pushed for a matching line
LsEntry(line) ==
    [name |-> LsName(SubSeq(line, 8, Len(line))), permissions |-> line[1],
     owner |-> line[3], group |-> line[4], size |-> LsNumber(line[5]),
     date |-> <<line[6], line[7]>>, isDirectory |-> line[1] \in {"drwxrwxrwx"}]

RECURSIVE LsLoop(_, _)
\* (mutant) a line that does not match ends the loop
LsNoMatch_break(rest, entries) == entries

\* `if (!match) continue`
LsNoMatch(rest, entries) == LsLoop(rest, entries)

\* the for loop of parseLsOutput over the lines still to read
LsLoop(lines, entries) ==
    IF lines = <<>> THEN entries
    ELSE IF LsSkipped(Head(lines)) THEN LsLoop(Tail(lines), entries)
    ELSE IF ~LsMatch(Head(lines)) THEN LsNoMatch(Tail(lines), entries)
    ELSE LsLoop(Tail(lines), Append(entries, LsEntry(Head(lines))))

parseLsOutput(lines) == LsLoop(lines, <<>>)

\* the outputs parseLsOutput is called with: up to MaxLines lines
RECURSIVE LsOutputs(_)
LsOutputs(n) ==
    IF n = 0 THEN {<<>>}
    ELSE LsOutputs(n - 1) \cup {Append(o, l) : o \in LsOutputs(n - 1), l \in LsLines}

CallParseLsOutput(lines) ==
    /\ io.fn = "none"
    /\ io' = [fn |-> "parseLsOutput", arg |-> lines, out |-> parseLsOutput(lines)]
    /\ UNCHANGED <<engineVars, ops, chan>>

\* ---------------------------------------------------------------- helpers specification
\* one call of one pure helper per behaviour; no session exists
\* ---------------------------------------------------------------- start commands
\* setupPortForwarding: the arguments after `adb -s <serial>`; the abstract
\* socket name is given as its parts
setupPortForwarding(serial, port) ==
    <<"forward", <<"tcp:", port>>, <<"localabstract:", <<"scrcpy">>>>>>

\* startScrcpyServer: the key=value options that follow the version argument
serverArgs ==
    {<<"log_level", "debug">>, <<"max_size", "1024">>, <<"max_fps", "30">>,
     <<"video_bit_rate", "8000000">>, <<"tunnel_forward", "true">>, <<"control", "true">>,
     <<"audio", "false">>, <<"video", "true">>, <<"cleanup", "true">>,
     <<"power_off_on_close", "false">>, <<"clipboard_autosync", "true">>,
     <<"downsize_on_error", "true">>, <<"send_device_meta", "true">>,
     <<"send_frame_meta", "false">>, <<"send_dummy_byte", "true">>,
     <<"send_codec_meta", "true">>, <<"video_codec", "h264">>}

\* the device commands one startSession issues for its tunnel and its server
CallStartCommands(serial) ==
    /\ io.fn = "none"
    /\ io' = [fn |-> "startSession", arg |-> serial,
              out |-> [forward |-> setupPortForwarding(serial, SCRCPY_SERVER_PORT),
                       server |-> serverArgs]]
    /\ UNCHANGED <<engineVars, ops, chan>>

InitCodec ==
    /\ IdleEngine
    /\ ops = <<>>
    /\ chan = <<>>
    /\ io = NoIo

NextCodec ==
    \/ \E name \in DeviceNames, size \in VideoSizes, spill \in 0..MaxSpill,
          a \in CutPoints, b \in CutPoints : CallReceiveDeviceMeta(name, size, spill, a, b)
    \/ \E fn \in Serializers : \E a \in SerializerInputs(fn) : CallSerialize(fn, a)
    \/ \E lines \in LsOutputs(MaxLines) : CallParseLsOutput(lines)
    \/ \E serial \in Serials : CallStartCommands(serial)

SpecCodec == InitCodec /\ [][NextCodec]_vars

\* ---------------------------------------------------------------- helper claims
\* C22: whatever the chunking, the metadata reader resolves only with the whole
\* frame (dummy byte and 76 bytes) and returns every byte it read past the
\* frame as overflow, in order.
C22_SpilledBytesForwarded ==
    (io.fn = "receiveDeviceMeta" /\ io.out.ok)
        => /\ io.out.read >= 1 + DEVICE_META_SIZE
           /\ io.out.overflow = SubSeq(io.arg.stream, 2 + DEVICE_META_SIZE, io.out.read)

\* C23: the width and height the reader yields are the u32be values at bytes
\* 68..71 and 72..75 of the frame that follows the dummy byte.
C23_SizeReadFromFrame ==
    (io.fn = "receiveDeviceMeta" /\ io.out.ok)
        => /\ io.out.width = U32BE(io.arg.stream, 1 + 68)
           /\ io.out.height = U32BE(io.arg.stream, 1 + 72)

\* C25: serializeInjectText succeeds exactly when the UTF-8 encoding of the
\* text has at most 300 bytes; it then returns 5+N bytes with N as u32be at
\* bytes 1..4; otherwise it fails with TextTooLong and returns no message.
C25_InjectTextLimit ==
    io.fn = "serializeInjectText"
        => LET N == Len(Utf8(io.arg.text)) IN
           /\ io.out.ok <=> N <= 300
           /\ io.out.ok => /\ Len(io.out.bytes) = 5 + N
                           /\ U32BE(io.out.bytes, 1) = N
                           /\ SubSeq(io.out.bytes, 6, 5 + N) = Utf8(io.arg.text)
           /\ ~io.out.ok => io.out.err = "TextTooLong" /\ io.out.bytes = <<>>

\* a text of 300 bytes in 150 two-byte characters was encoded into 305 bytes
C25_Witness ==
    /\ io.fn = "serializeInjectText"
    /\ io.arg.text = [ch |-> 233, n |-> 150]
    /\ io.out.ok /\ Len(io.out.bytes) = 305

\* Buffer.readInt16BE(off)
I16BE(b, off) == IF U16BE(b, off) >= 32768 THEN U16BE(b, off) - 65536 ELSE U16BE(b, off)

\* C26: every encoded hScroll and vScroll is the signed 16-bit value of the
\* clamped amount: 0x7FFF at or beyond +16, -0x8000 at or beyond -16, 0 for 0.
C26_ScrollClamped ==
    io.fn = "serializeInjectScrollEvent"
        => \A ax \in {<<io.arg.hScroll, 13>>, <<io.arg.vScroll, 15>>} :
             LET e == I16BE(io.out.bytes, ax[2])
                 raw == U16BE(io.out.bytes, ax[2]) IN
             /\ e \in -32768..32767
             /\ io.out.bytes[ax[2] + 1] \in 0..255 /\ io.out.bytes[ax[2] + 2] \in 0..255
             /\ ax[1] >= 16 => raw = 32767
             /\ ax[1] <= -16 => raw = 32768
             /\ ax[1] = 0 => e = 0

\* a scroll beyond the positive limit was encoded as 7F FF
C26_Witness ==
    /\ io.fn = "serializeInjectScrollEvent"
    /\ io.arg.vScroll = 17 /\ io.arg.hScroll = -17
    /\ SubSeq(io.out.bytes, 16, 17) = <<127, 255>>
    /\ SubSeq(io.out.bytes, 14, 15) = <<128, 0>>

\* the type id and the size of each message (N: byte length of its text)
MessageTable(fn, N) ==
    CASE fn = "serializeInjectKeycode" -> <<0, 14>>
      [] fn = "serializeInjectText" -> <<1, 5 + N>>
      [] fn = "serializeInjectTouchEvent" -> <<2, 32>>
      [] fn = "serializeInjectScrollEvent" -> <<3, 21>>
      [] fn = "serializeExpandNotificationPanel" -> <<5, 1>>
      [] fn = "serializeExpandSettingsPanel" -> <<6, 1>>
      [] fn = "serializeCollapsePanels" -> <<7, 1>>
      [] fn = "serializeGetClipboard" -> <<8, 2>>
      [] fn = "serializeSetClipboard" -> <<9, 14 + N>>
      [] fn = "serializeSetDisplayPower" -> <<10, 2>>
      [] fn = "serializeRotateDevice" -> <<11, 1>>
      [] fn = "serializeStartApp" -> <<16, 2 + N>>

\* C27: every encoded control message has its type id at byte 0 and the total
\* length of its table entry.
C27_TypeByteAndLength ==
    (io.fn \in Serializers /\ io.out.ok)
        => LET row == MessageTable(io.fn, Len(Utf8(io.arg.text))) IN
           /\ io.out.bytes[1] = row[1]
           /\ Len(io.out.bytes) = row[2]
           /\ \A i \in DOMAIN io.out.bytes : io.out.bytes[i] \in 0..255

\* a SET_DISPLAY_POWER message was encoded
C27_Witness ==
    /\ io.fn = "serializeSetDisplayPower"
    /\ io.arg.on
    /\ io.out.bytes = <<10, 1>>

\* the lines of an output that match the long-listing pattern
LongListing(line) ==
    /\ Len(line) >= 8
    /\ line[1] \in PermTokens
    /\ line[2] \in {"1", "2", "7", "48", "1024", "4096"}
    /\ line[5] \in {"1", "2", "7", "48", "1024", "4096"}
    /\ line[6] \in DateTokens /\ line[7] \in TimeTokens

\* C28: parseLsOutput returns one entry per line that matches the long-listing
\* pattern, in input order; the other lines add nothing and change nothing:
\* the result equals the result for the matching lines alone, and the i-th
\* entry is the entry of the i-th matching line.
C28_OneEntryPerMatchingLine ==
    io.fn = "parseLsOutput"
        => LET good == SelectSeq(io.arg, LongListing) IN
           /\ Len(io.out) = Len(good)
           /\ io.out = parseLsOutput(good)
           /\ \A i \in DOMAIN good : <<io.out[i]>> = parseLsOutput(<<good[i]>>)
           /\ \A i \in DOMAIN good : io.out[i].permissions = good[i][1]

\* a malformed line stood between two well-formed ones
C28_Witness ==
    /\ io.fn = "parseLsOutput"
    /\ Len(io.arg) = 3
    /\ LongListing(io.arg[1]) /\ ~LongListing(io.arg[2]) /\ io.arg[2] # <<>>
    /\ io.arg[2][1] # "total"
    /\ LongListing(io.arg[3])
    /\ Len(io.out) = 2
    /\ io.out[2].name = <<"sdcard">>

\* ---------------------------------------------------------------- stop during start
\* startSession and stopSession invocations for devA that overlap: every device
\* command succeeds and a server answers, so only the interleaving and the
\* moments at which the peer closes a socket vary
NextStartStop ==
    \/ \E c \in 1..MaxStarts : StartInvoke(c, "devA", TRUE)
    \/ \E c \in 1..MaxStarts : StartResolved(c, {"devA"})
    \/ \E c \in 1..MaxStarts : StartPushed(c, TRUE)
    \/ \E c \in 1..MaxStarts : StartForwarded(c, TRUE)
    \/ \E c \in 1..MaxStarts : StartConnect(c)
    \/ \E c \in 1..MaxStarts : ConnectOk(c, "server")
    \/ \E c \in 1..MaxStarts : MetaData(c, DEVICE_META_SIZE)
    \/ \E c \in 1..MaxStarts : StopInvoke(c, "devA")
    \/ \E c \in 1..MaxStarts : StopResolved(c, {"devA"})
    \/ \E c \in 1..MaxStarts : StopPkilled(c, TRUE)
    \/ \E c \in 1..MaxStarts : StopUnforwarded(c, TRUE)
    \/ \E c \in 1..MaxStarts : Return(c)
    \/ \E k \in SocketIds : SocketClose(k)

SpecStartStop == InitOverlap /\ [][NextStartStop]_vars

\* C31: when stopSession finishes and the table holds, for its serial, another
\* session than the one it found when it started, it leaves that entry and the
\* port forward as they are.
C31_StopRemovesOnlyItsSession ==
    [][\A c \in 1..MaxStarts :
          (/\ calls[c].kind = "stop" /\ calls[c].pc = "unforward"
           /\ calls'[c].pc = "done"
           /\ sessions[calls[c].serial] # calls[c].session)
             => /\ sessions'[calls[c].serial] = sessions[calls[c].serial]
                /\ forward' = forward]_vars

\* ---------------------------------------------------------------- gestures
\* C32: an operation that completed over the ADB fallback has sent no scrcpy
\* control message.
C32_FallbackAfterNoScrcpyMessage ==
    \A o \in DOMAIN ops :
        (ops[o].pc = "done" /\ ops[o].source = "adb") => ops[o].sent = <<>>

\* the positions of the touch messages among the messages written to a socket
TouchAt(wire) == {i \in DOMAIN wire : wire[i].m.type = "INJECT_TOUCH_EVENT"}

\* touch message i of a written sequence arrives in a legal pointer state:
\* a DOWN while the pointer is up, a MOVE or UP while it is down
TouchInOrder(wire, i) ==
    LET before == {j \in TouchAt(wire) : j < i}
        down == /\ before # {}
                /\ wire[CHOOSE j \in before : \A h \in before : h <= j].m.action # ACTION_UP
    IN IF wire[i].m.action = ACTION_DOWN THEN ~down ELSE down

\* C33: on every control socket the touch messages of the generic-finger
\* pointer are well-formed: no ACTION_DOWN while the pointer is down, no
\* ACTION_MOVE or ACTION_UP while it is up.
C33_PointerWellFormed ==
    \A k \in DOMAIN chan : \A i \in TouchAt(chan[k].wire) : TouchInOrder(chan[k].wire, i)

\* the session of serial s is a dead one: its entry is in the table and its
\* control socket has been cleared by the close/error handler
DeadSession(s) ==
    /\ sessions[s] # NoSock
    /\ sessObj[sessions[s]].controlSocket = NoSock

\* C34: once the control socket of a registered session has closed,
\* hasActiveSession(serial) is false; and a startSession that succeeds returns
\* the session that is then in the table, with an open control socket, which
\* is a new session whenever the table held a dead one.
C34_DeadSessionReplaced ==
    [][/\ \A s \in Serials :
            (LiveSession(s) /\ sockets'[ControlSocketOf(s)].st # "open"
               /\ sessions'[s] = sessions[s])
              => InactiveNext(s)
       /\ \A c \in DOMAIN calls :
            (calls[c].kind = "start" /\ calls[c].pc # "done" /\ calls'[c].pc = "done")
              => LET s == calls'[c].serial IN
                 /\ calls'[c].session = sessions'[s]
                 /\ ~InactiveNext(s)
                 /\ \E k \in SocketIds : /\ k = sessObj'[calls'[c].session].controlSocket
                                          /\ sockets'[k].st = "open"
                 /\ DeadSession(s) => calls'[c].session # sessions[s]]_vars

\* with no stopSession running, a second startSession registered session 2
\* over session 1, whose socket had closed
C34_Witness ==
    \E c \in DOMAIN calls :
        /\ calls[c].kind = "start" /\ calls[c].pc = "done"
        /\ "register" \in calls[c].did
        /\ calls[c].session = 2 /\ sessions["devA"] = 2
        /\ sockets[1].st = "destroyed"
        /\ sessObj[1].exists /\ sessObj[1].controlSocket = NoSock
        /\ hasActiveSession("devA")
        /\ \A d \in DOMAIN calls : calls[d].kind # "stop"

\* ---------------------------------------------------------------- tunnel name
\* the values of option key among the server's options
OptionValues(args, key) == {a[2] : a \in {b \in args : b[1] = key}}

\* C35: the server is started with exactly one scid= option and the abstract
\* socket the tunnel is forwarded to is scrcpy_<scid> for that same value.
C35_TunnelNamedByScid ==
    io.fn = "startSession"
        => /\ Cardinality(OptionValues(io.out.server, "scid")) = 1
           /\ \A scid \in OptionValues(io.out.server, "scid") :
                 io.out.forward[3] = <<"localabstract:", <<"scrcpy_", scid>>>>

\* ---------------------------------------------------------------- tap and swipe
\* the touch message with the given action at point p, for devA's session
\* (1080 x 1920)
TouchOnDevA(action, p) ==
    [type |-> "INJECT_TOUCH_EVENT", action |-> action, x |-> p[1], y |-> p[2], n |-> 0,
     w |-> 1080, h |-> 1920]

\* C36: a tap sends its messages in the order ACTION_DOWN, ACTION_UP, both at
\* the tapped point and with the session's screen size, and nothing else; a
\* tap that completed over scrcpy has sent exactly these two and has run no
\* ADB command; a tap runs at most one ADB command, `input tap`, and a tap
\* that completed over ADB has run exactly that one.
C36_TapIsDownThenUp ==
    \A o \in DOMAIN ops :
        ops[o].kind = "tap"
          => LET expected == <<TouchOnDevA(0, <<10, 20>>), TouchOnDevA(1, <<10, 20>>)>> IN
             /\ Len(ops[o].sent) <= 2
             /\ \A i \in DOMAIN ops[o].sent : ops[o].sent[i] = expected[i]
             /\ (ops[o].pc = "done" /\ ops[o].source = "scrcpy")
                   => ops[o].sent = expected /\ ops[o].adb = <<>>
             /\ Len(ops[o].adb) <= 1
             /\ \A i \in DOMAIN ops[o].adb : ops[o].adb[i].cmd = "input tap"
             /\ (ops[o].pc = "done" /\ ops[o].source = "adb")
                   => Len(ops[o].adb) = 1 /\ ops[o].adb[1].ok

\* a tap completed over scrcpy after sending two messages
C36_Witness ==
    \E o \in DOMAIN ops :
        /\ ops[o].kind = "tap" /\ ops[o].pc = "done" /\ ops[o].source = "scrcpy"
        /\ Len(ops[o].sent) = 2
        /\ ops[o].sent[1].action = ACTION_DOWN /\ ops[o].sent[2].action = ACTION_UP

\* the ACTION_MOVE messages among the messages an operation has sent
MovesOf(sent) == SelectSeq(sent, LAMBDA m : m.action = 2)

\* C37 as stated: a swipe that completed over scrcpy has sent one ACTION_DOWN
\* at the start point, then floor(ms / 16) ACTION_MOVE messages, then one
\* ACTION_UP at the end point.
C37_SwipeSendsFloorMoves ==
    \A o \in DOMAIN ops :
        (ops[o].kind = "swipe" /\ ops[o].pc = "done" /\ ops[o].source = "scrcpy")
          => LET sent == ops[o].sent IN
             /\ sent[1] = TouchOnDevA(0, <<10, 20>>)
             /\ sent[Len(sent)] = TouchOnDevA(1, <<19, 50>>)
             /\ Len(MovesOf(sent)) = ops[o].inp.dur \div 16
             /\ Len(sent) = 2 + Len(MovesOf(sent))

\* C37 (amended): with steps = max(2, floor(ms / 16)), a swipe that completed
\* over scrcpy has sent one ACTION_DOWN at the start point, then steps - 1
\* ACTION_MOVE messages, the i-th at the rounded point start + (end - start) *
\* i / steps, then one ACTION_UP at the end point, in that order.
C37_SwipeSendsStepsMinusOneMoves ==
    \A o \in DOMAIN ops :
        (ops[o].kind = "swipe" /\ ops[o].pc = "done" /\ ops[o].source = "scrcpy")
          => LET sent == ops[o].sent
                 floor == ops[o].inp.dur \div 16
                 steps == IF floor < 2 THEN 2 ELSE floor
             IN /\ Len(sent) = steps + 1
                /\ sent[1] = TouchOnDevA(0, <<10, 20>>)
                /\ sent[steps + 1] = TouchOnDevA(1, <<19, 50>>)
                /\ \A i \in 1..(steps - 1) :
                      sent[i + 1] = TouchOnDevA(2, <<(2 * (10 * steps + 9 * i) + steps)
                                                       \div (2 * steps),
                                                     (2 * (20 * steps + 30 * i) + steps)
                                                       \div (2 * steps)>>)

\* a swipe of 48 ms completed over scrcpy: DOWN, MOVE at (13, 30), MOVE at
\* (16, 40), UP
C37_Witness ==
    \E o \in DOMAIN ops :
        /\ ops[o].kind = "swipe" /\ ops[o].pc = "done" /\ ops[o].source = "scrcpy"
        /\ ops[o].inp.dur = 48
        /\ ops[o].sent = <<TouchOnDevA(0, <<10, 20>>), TouchOnDevA(2, <<13, 30>>),
                           TouchOnDevA(2, <<16, 40>>), TouchOnDevA(1, <<19, 50>>)>>

\* ---------------------------------------------------------------- key names
\* the names of the key table, in either case
KeyNames == {"HOME", "home", "BACK", "back", "ENTER", "enter"}

\* the strings of the model that are decimal integers, with their values
DecimalIntegers == [s \in {"66"} |-> 66]

\* C38: a key_event whose key is a string that is neither a table name nor a
\* decimal integer ends at once with an error result, having sent no scrcpy
\* message and run no ADB command; a decimal integer is its own keycode.
C38_UnknownKeyRejected ==
    \A o \in DOMAIN ops :
        (ops[o].kind = "key_event" /\ ~ops[o].inp.key.num)
          => LET s == ops[o].inp.key.s IN
             /\ (s \notin KeyNames /\ s \notin DOMAIN DecimalIntegers)
                   => /\ ops[o].pc = "done" /\ ops[o].result = "error"
                      /\ ops[o].sent = <<>> /\ ops[o].adb = <<>>
             /\ (s \in DOMAIN DecimalIntegers /\ s \notin KeyNames)
                   => ops[o].pc = "done" \/ ops[o].code = DecimalIntegers[s]

\* ---------------------------------------------------------------- clipboard fallback
\* the getprop outputs of the model that are an SDK level of 31 or more
SdkAtLeast31(out) == out \in {"33"}

\* the clipboard-reading commands in the log of an operation
ClipboardReads(log) ==
    SelectSeq(log, LAMBDA e : e.cmd \in {"cmd clipboard get", "service call clipboard 2"})

\* C39 as stated: a clipboard_get whose fallback got the SDK level has run
\* exactly one of `cmd clipboard get` and `service call clipboard 2` when it
\* returns: the former if the level is at least 31, the latter otherwise.
C39_ExactlyOneClipboardCommand ==
    \A o \in DOMAIN ops :
        (/\ ops[o].kind = "clipboard_get" /\ ops[o].pc = "done"
         /\ ops[o].adb # <<>> /\ ops[o].adb[1].ok)
          => LET reads == ClipboardReads(ops[o].adb) IN
             /\ Len(reads) = 1
             /\ reads[1].cmd = "cmd clipboard get" <=> SdkAtLeast31(ops[o].adb[1].out)

\* C39 (amended): the fallback reads the SDK level first; its next command is
\* `cmd clipboard get` exactly when the level is at least 31 and `service call
\* clipboard 2` otherwise; `service call clipboard 2` is also run, as a third
\* command, exactly after a `cmd clipboard get` that succeeded with an output
\* that is empty or contains "not found" or "Error". No other ADB command is
\* run.
C39_ClipboardCommandsBySdkThenOutput ==
    \A o \in DOMAIN ops :
        ops[o].kind = "clipboard_get"
          => LET log == ops[o].adb
                 unusable == {"", "cmd: not found", "Error: x"}
             IN /\ Len(log) <= 3
                /\ Len(log) >= 1 => log[1].cmd = "getprop"
                /\ Len(log) >= 2
                     => /\ log[1].ok
                        /\ log[2].cmd = "cmd clipboard get" <=> SdkAtLeast31(log[1].out)
                        /\ log[2].cmd = "service call clipboard 2"
                              <=> ~SdkAtLeast31(log[1].out)
                /\ Len(log) = 3
                     => /\ log[2].cmd = "cmd clipboard get"
                        /\ log[2].ok /\ log[2].out \in unusable
                        /\ log[3].cmd = "service call clipboard 2"
                /\ (ops[o].pc = "done" /\ Len(log) = 2 /\ log[2].cmd = "cmd clipboard get")
                     => ~log[2].ok \/ log[2].out \notin unusable

\* on SDK 33 `cmd clipboard get` printed nothing and `service call clipboard 2`
\* was run as well
C39_Witness ==
    \E o \in DOMAIN ops :
        /\ ops[o].kind = "clipboard_get" /\ ops[o].pc = "done"
        /\ Len(ops[o].adb) = 3
        /\ ops[o].adb[1].out = "33"
        /\ ops[o].adb[2].cmd = "cmd clipboard get" /\ ops[o].adb[2].out = ""
        /\ ops[o].adb[3].cmd = "service call clipboard 2"

====
